---- MODULE Spec2Model ----
(***************************************************************************)
(* A model of the core of metamath-knife: the parsed-formula tree with its *)
(* equality, unifier and substitution (src/src/formula.rs), and the proof  *)
(* verifier's stack machine (src/src/verify.rs).                           *)
(***************************************************************************)
EXTENDS Integers, Sequences, FiniteSets, TLC

(***************************************************************************)
(* Bounds of the model.                                                    *)
(***************************************************************************)
\* Largest number of nodes of an input formula's tree.
MaxNodes == 3

\* Labels of formula nodes (atoms), work-variable labels and typecodes.
LabelSeq == <<"a", "b">>
WorkSeq == <<"w1", "w2">>
Labels == {LabelSeq[i] : i \in 1..Len(LabelSeq)}
WorkLabels == {WorkSeq[i] : i \in 1..Len(WorkSeq)}
TypeCodes == {"wff"}

Min(x, y) == IF x <= y THEN x ELSE y

(***************************************************************************)
(* Tree<L>: an arena of labelled nodes; a NodeId is an index into it.      *)
(***************************************************************************)
EmptyTree == << >>

add_node(tree, label, children) ==
    [tree |-> Append(tree, [label |-> label, children |-> children]),
     id   |-> Len(tree) + 1]

children_iter(tree, node_id) == tree[node_id].children

has_children(tree, node_id) == tree[node_id].children # << >>

(***************************************************************************)
(* Formula<L> { typecode, tree: Arc<Tree>, root, variables }.  The field   *)
(* arc identifies the allocation the Arc points to (Arc::ptr_eq compares   *)
(* it); variables is the set of NodeIds whose bit is set.                  *)
(***************************************************************************)
is_variable(f, node_id) == node_id \in f.variables

from_float(label, typecode, arc) ==
    LET t == add_node(EmptyTree, label, << >>)
    IN  [typecode |-> typecode, tree |-> t.tree, arc |-> arc,
         root |-> t.id, variables |-> {t.id}]

\* mutant: the view keeps the root of the whole formula
sub_formula_unrooted(f, node_id) == f

sub_formula(f, node_id) ==
    [typecode |-> f.typecode, tree |-> f.tree, arc |-> f.arc,
     root |-> node_id, variables |-> f.variables]

\* The children presence test of sub_eq and sub_unify, as written: it
\* compares has_children, not the number of children.
SameChildPresence(st, sn, ot, on) == has_children(st, sn) = has_children(ot, on)

RECURSIVE sub_eq(_, _, _, _)
sub_eq(self, node_id, other, other_node_id) ==
    \/ (self.arc = other.arc /\ node_id = other_node_id)
    \/ /\ self.tree[node_id].label = other.tree[other_node_id].label
       /\ SameChildPresence(self.tree, node_id, other.tree, other_node_id)
       /\ LET sc == children_iter(self.tree, node_id)
              oc == children_iter(other.tree, other_node_id)
          IN  \A i \in 1..Min(Len(sc), Len(oc)) : sub_eq(self, sc[i], other, oc[i])

\* impl PartialEq for Formula
FormulaEq(f, g) == sub_eq(f, f.root, g, g.root)

(***************************************************************************)
(* FormulaBuilder { stack, variables, tree }                               *)
(***************************************************************************)
NewBuilder == [stack |-> << >>, variables |-> {}, tree |-> EmptyTree]

\* var_count + offset, both u8, as a build that does not check overflow
\* computes it; a build that checks it panics when ReduceOverflows
U8Add(a, b) == (a + b) % 256

ReduceOverflows(var_count, offset) == var_count + offset > 255

saturating_sub(a, b) == IF a >= b THEN a - b ELSE 0

\* the assertion at the head of reduce
ReduceAssert(fb, var_count, offset) == Len(fb.stack) >= U8Add(var_count, offset)

\* Vec::drain(reduce_start..reduce_end) panics on a range that starts after
\* its end
DrainPanics(fb, var_count, offset) ==
    saturating_sub(Len(fb.stack), U8Add(var_count, offset))
        > saturating_sub(Len(fb.stack), offset)

reduce(fb, label, var_count, offset, is_var) ==
    LET len          == Len(fb.stack)
        reduce_start == saturating_sub(len, U8Add(var_count, offset))
        reduce_end   == saturating_sub(len, offset)
        children     == SubSeq(fb.stack, reduce_start + 1, reduce_end)
        n            == add_node(fb.tree, label, children)
    IN  [stack     |-> SubSeq(fb.stack, 1, reduce_start) \o << n.id >>
                         \o SubSeq(fb.stack, reduce_end + 1, len),
         variables |-> IF is_var THEN fb.variables \cup {n.id} ELSE fb.variables,
         tree      |-> n.tree]

\* the assertion at the head of build
BuildAssert(fb) == Len(fb.stack) = 1

build(fb, typecode, arc) ==
    [typecode |-> typecode, tree |-> fb.tree, arc |-> arc,
     root |-> fb.stack[1], variables |-> fb.variables]

(***************************************************************************)
(* Substitutions<L, J>: a map from labels to formulas.                     *)
(***************************************************************************)
NoSubstitutions == << >>

IsBound(subs, label) == label \in DOMAIN subs

insert(subs, label, formula) ==
    [l \in (DOMAIN subs) \cup {label} |-> IF l = label THEN formula ELSE subs[l]]

(***************************************************************************)
(* Formula::unify / sub_unify.  The result is [ok, subs]: ok is FALSE for  *)
(* Err(UnificationFailed), and subs is the map as the call left it.        *)
(***************************************************************************)
\* mutant: a bound pattern variable is accepted without the equality check
UnifyBound_unchecked(self, node_id, formula) == TRUE

\* a pattern variable that already has a substitution: check equality
UnifyBound(self, node_id, formula) == sub_eq(self, node_id, formula, formula.root)

\* the test that lets sub_unify descend into a non-variable pattern node
UnifySameNode(self, node_id, other, other_node_id) ==
    /\ self.tree[node_id].label = other.tree[other_node_id].label
    /\ SameChildPresence(self.tree, node_id, other.tree, other_node_id)

RECURSIVE sub_unify(_, _, _, _, _)
RECURSIVE unify_children(_, _, _, _, _, _)
sub_unify(self, node_id, other, other_node_id, subs) ==
    LET v == other.tree[other_node_id].label
    IN  IF is_variable(other, other_node_id)
        THEN IF IsBound(subs, v)
             THEN [ok |-> UnifyBound(self, node_id, subs[v]), subs |-> subs]
             ELSE [ok |-> TRUE, subs |-> insert(subs, v, sub_formula(self, node_id))]
        ELSE IF UnifySameNode(self, node_id, other, other_node_id)
             THEN unify_children(self, children_iter(self.tree, node_id),
                                 other, children_iter(other.tree, other_node_id),
                                 1, subs)
             ELSE [ok |-> FALSE, subs |-> subs]

\* the loop over the zipped children, left at the first error
unify_children(self, sc, other, oc, i, subs) ==
    IF i > Min(Len(sc), Len(oc))
    THEN [ok |-> TRUE, subs |-> subs]
    ELSE LET r == sub_unify(self, sc[i], other, oc[i], subs)
         IN  IF r.ok THEN unify_children(self, sc, other, oc, i + 1, r.subs)
                     ELSE r

\* mutant: a failed call gives back the substitutions it was called with
unify_rollback(self, other, subs) ==
    LET r == sub_unify(self, self.root, other, other.root, subs)
    IN  IF r.ok THEN r ELSE [ok |-> FALSE, subs |-> subs]

unify(self, other, subs) == sub_unify(self, self.root, other, other.root, subs)

(***************************************************************************)
(* Formula::substitute / sub_substitute / copy_sub_formula                 *)
(***************************************************************************)
RECURSIVE copy_sub_formula(_, _, _)
RECURSIVE copy_children(_, _, _, _)
copy_sub_formula(f, node_id, fb) ==
    LET cs  == children_iter(f.tree, node_id)
        fb1 == copy_children(f, cs, 1, fb)
    IN  reduce(fb1, f.tree[node_id].label, Len(cs), 0, is_variable(f, node_id))

copy_children(f, cs, i, fb) ==
    IF i > Len(cs) THEN fb
    ELSE copy_children(f, cs, i + 1, copy_sub_formula(f, cs[i], fb))

\* mutant: a bound variable node is rebuilt instead of being replaced
Replaces_never(f, node_id, subs) == FALSE

\* whether sub_substitute replaces the node by the formula bound to it
Replaces(f, node_id, subs) ==
    is_variable(f, node_id) /\ IsBound(subs, f.tree[node_id].label)

RECURSIVE sub_substitute(_, _, _, _)
RECURSIVE substitute_children(_, _, _, _, _)
sub_substitute(f, node_id, subs, fb) ==
    IF Replaces(f, node_id, subs)
    THEN LET formula == subs[f.tree[node_id].label]
         IN  copy_sub_formula(formula, formula.root, fb)
    ELSE LET cs  == children_iter(f.tree, node_id)
             fb1 == substitute_children(f, cs, 1, subs, fb)
         IN  reduce(fb1, f.tree[node_id].label, Len(cs), 0, is_variable(f, node_id))

substitute_children(f, cs, i, subs, fb) ==
    IF i > Len(cs) THEN fb
    ELSE substitute_children(f, cs, i + 1, subs, sub_substitute(f, cs[i], subs, fb))

substitute(f, subs, arc) ==
    build(sub_substitute(f, f.root, subs, NewBuilder), f.typecode, arc)

(***************************************************************************)
(* Input formulas.  A pattern is anything a FormulaBuilder yields with at  *)
(* most MaxNodes calls of reduce followed by build, its variable nodes     *)
(* being leaves (the invariant of Formula); the formula unified against it *)
(* is built the same way and has no variable node.                         *)
(***************************************************************************)
ReduceStep(S, flags) ==
    { reduce(x[1], x[2], x[3], 0, x[4]) :
        x \in { y \in S \X Labels \X (0..MaxNodes) \X flags :
                  /\ ReduceAssert(y[1], y[3], 0)
                  /\ (y[4] => y[3] = 0) } }

RECURSIVE BuilderStates(_, _)
BuilderStates(n, flags) ==
    IF n = 0 THEN {NewBuilder}
    ELSE LET S == BuilderStates(n - 1, flags) IN S \cup ReduceStep(S, flags)

BuiltFormulas(arc, flags) ==
    { build(x[1], x[2], arc) :
        x \in { y \in BuilderStates(MaxNodes, flags) \X TypeCodes : BuildAssert(y[1]) } }

\* The identities of the Arc allocations: one for each input tree, ...
SelfArc == <<"self">>
PatternArc == <<"pattern">>
SelfFormulas == BuiltFormulas(SelfArc, {FALSE})
PatternFormulas == BuiltFormulas(PatternArc, BOOLEAN)

\* ... one for the tree substitute builds, one for each from_float(w)
\* inserted for a label v, and one for a tree built while checking.
OutArc == <<"out">>
FloatArc(v, w) == <<"float", v, w>>
CheckArc == <<"check">>

(***************************************************************************)
(* State of the formula operations.                                        *)
(***************************************************************************)
VARIABLES
    fself,   \* the formula unify is called on
    fpat,    \* the pattern (other) of unify, and the formula substituted into
    subs,    \* the Substitutions passed to unify and substitute
    fout,    \* << >> or <<the formula returned by substitute>>
    subs2,   \* the Substitutions filled by unifying fout against fpat
    flast,   \* the last operation: [op, ok, pre]
    fthird   \* << >> or <<a third formula>>, for the comparisons

fvars == <<fself, fpat, subs, fout, subs2, flast, fthird>>

VARIABLES
    vseg,        \* verify: position in SegmentOrder of the segment being verified
    vstmt,       \* verify_segment: index of the next statement of the segment
    pc,          \* where verify_proof stands: "segment" between statements,
                 \* "roster", "digits", "labels" inside a proof, "done", "idle"
    state,       \* the VerifyState of the statement (kept for inspection
                 \* after verify_proof has returned)
    i,           \* verify_proof: index of the next proof token
    k,           \* verify_proof: the varint accumulator
    can_save,    \* verify_proof: the save flag
    count,       \* verify_proof: the step counter of an uncompressed proof
    cpos,        \* characters consumed of the current digit token
    peek,        \* the token proof_slice_at(0) has shown, until it is consumed
    diagnostics, \* the diagnostics of VerifyResult, by statement address
    last,        \* the last step taken and the Option<Diagnostic> it gave
    checked      \* the addresses verify_proof has been called on

vvars == <<vseg, vstmt, pc, state, i, k, can_save, count, cpos, peek,
           diagnostics, last, checked>>

VARIABLES
    script,      \* the proof of each $p statement when the proofs are fixed
                 \* beforehand, << >> when a proof is any sequence of tokens
    run,         \* 1 in the first verification of the database, 2 in the second
    segorder,    \* the order in which this run visits the segments
    reversed,    \* whether this run visits the statements of a segment backwards
    first_run    \* the diagnostics of the first run, once the second has begun

rvars == <<script, run, segorder, reversed, first_run>>

VARIABLES
    ba,          \* the Bitset a of a |= &b, and the one set_bit and iteration act on
    bb,          \* the Bitset b
    blast,       \* the last Bitset operation, with a and b as they were before it
    bout         \* the indices the last iteration of a yielded

bvars == <<ba, bb, blast, bout>>

VARIABLES
    sbuf,        \* the stack_buffer append_to_stack_buffer writes to
    srange,      \* the range the last append_to_stack_buffer returned
    sprev,       \* the stack_buffer before the last append_to_stack_buffer
    sdone        \* the number of calls of append_to_stack_buffer

svars == <<sbuf, srange, sprev, sdone>>

VARIABLES
    gfb,         \* the FormulaBuilder reduce and build are called on
    glast,       \* the last call on it, with the builder as it was before
    gchecks      \* whether the build checks integer overflow (a debug build
                 \* panics on it, a release build wraps)

gvars == <<gfb, glast, gchecks>>

VARIABLES
    cin,         \* the arguments of a call on a formula: the formula and what
                 \* else the function is given
    clast        \* the call made on them and what it gave

cvars == <<cin, clast>>

xvars == <<gvars, cvars>>

\* the variables neither the formula operations nor the verifier touch
others == <<bvars, svars, xvars>>

allvars == <<fvars, vvars, rvars, others>>

\* no Bitset operation is running
BIdle ==
    /\ ba = [head |-> 0, tail |-> << >>]
    /\ bb = [head |-> 0, tail |-> << >>]
    /\ blast = [op |-> "idle"]
    /\ bout = << >>

\* append_to_stack_buffer is not called
SIdle ==
    /\ sbuf = << >>
    /\ srange = [start |-> 0, end |-> 0]
    /\ sprev = << >>
    /\ sdone = 0

\* no FormulaBuilder is in use
GIdle ==
    /\ gfb = << >>
    /\ glast = [op |-> "idle"]
    /\ gchecks = FALSE

\* no function is called on a formula
CIdle ==
    /\ cin = << >>
    /\ clast = [op |-> "idle"]

XIdle == GIdle /\ CIdle

RestIdle == BIdle /\ SIdle /\ XIdle

\* no verification is running
VIdle ==
    /\ vseg = 1
    /\ vstmt = 0
    /\ pc = "idle"
    /\ state = [cur_frame |-> ""]
    /\ i = 0
    /\ k = 0
    /\ can_save = FALSE
    /\ count = 0
    /\ cpos = 0
    /\ peek = << >>
    /\ diagnostics = << >>
    /\ last = [op |-> "none", err |-> << >>, frame |-> "", addr |-> << >>,
               label |-> "", index |-> -1, ch |-> 0, pending |-> << >>,
               skipped |-> FALSE]
    /\ checked = {}
    /\ script = << >>
    /\ run = 1
    /\ segorder = << >>
    /\ reversed = FALSE
    /\ first_run = << >>

FInit ==
    /\ fself \in SelfFormulas
    /\ fpat \in PatternFormulas
    /\ subs = NoSubstitutions
    /\ fout = << >>
    /\ subs2 = NoSubstitutions
    /\ flast = [op |-> "init", ok |-> TRUE, pre |-> NoSubstitutions]
    /\ fthird = << >>
    /\ VIdle
    /\ RestIdle

\* Substitutions::insert of a fresh from_float formula for a label that has
\* none, before any other call
FInsertFloat(v, w, tc) ==
    /\ flast.op \in {"init", "insert"}
    /\ ~IsBound(subs, v)
    /\ subs' = insert(subs, v, from_float(w, tc, FloatArc(v, w)))
    /\ flast' = [op |-> "insert", ok |-> TRUE, pre |-> subs]
    /\ UNCHANGED <<fself, fpat, fout, subs2, fthird>>
    /\ UNCHANGED <<vvars, rvars, others>>

\* fself.unify(&fpat, &mut subs)
FUnify ==
    /\ flast.op \in {"init", "insert", "unify"}
    /\ LET r == unify(fself, fpat, subs)
       IN  /\ subs' = r.subs
           /\ flast' = [op |-> "unify", ok |-> r.ok, pre |-> subs]
    /\ UNCHANGED <<fself, fpat, fout, subs2, fthird>>
    /\ UNCHANGED <<vvars, rvars, others>>

\* fout = fpat.substitute(&subs)
FSubstitute ==
    /\ flast.op \in {"init", "insert", "unify"}
    /\ fout' = << substitute(fpat, subs, OutArc) >>
    /\ flast' = [op |-> "substitute", ok |-> TRUE, pre |-> subs]
    /\ UNCHANGED <<fself, fpat, subs, subs2, fthird>>
    /\ UNCHANGED <<vvars, rvars, others>>

\* fout.unify(&fpat, &mut subs2) with subs2 empty
FUnifyOut ==
    /\ flast.op = "substitute"
    /\ LET r == unify(fout[1], fpat, NoSubstitutions)
       IN  /\ subs2' = r.subs
           /\ flast' = [op |-> "unify_out", ok |-> r.ok, pre |-> NoSubstitutions]
    /\ UNCHANGED <<fself, fpat, subs, fout, fthird>>
    /\ UNCHANGED <<vvars, rvars, others>>

FNext ==
    \/ \E v \in Labels, w \in WorkLabels, tc \in TypeCodes : FInsertFloat(v, w, tc)
    \/ FUnify
    \/ FSubstitute
    \/ FUnifyOut

SpecFormula == FInit /\ [][FNext]_allvars

(***************************************************************************)
(* Formula == Formula on three formulas.  The three start as the roots of  *)
(* three separately built trees; EShare makes the second a sub-formula of  *)
(* the first (the same Arc, another root).                                 *)
(***************************************************************************)
ThirdArc == <<"third">>

EInit ==
    /\ fself \in SelfFormulas
    /\ fpat \in BuiltFormulas(PatternArc, {FALSE})
    /\ \E h \in BuiltFormulas(ThirdArc, {FALSE}) : fthird = <<h>>
    /\ subs = NoSubstitutions
    /\ fout = << >>
    /\ subs2 = NoSubstitutions
    /\ flast = [op |-> "init", ok |-> TRUE, pre |-> NoSubstitutions]
    /\ VIdle
    /\ RestIdle

\* fpat = fself.sub_formula(n)
EShare(n) ==
    /\ flast.op = "init"
    /\ fpat' = sub_formula(fself, n)
    /\ flast' = [op |-> "share", ok |-> TRUE, pre |-> NoSubstitutions]
    /\ UNCHANGED <<fself, fthird, subs, fout, subs2>>
    /\ UNCHANGED <<vvars, rvars, others>>

\* fself == fpat
ECompare ==
    /\ flast.op \in {"init", "share"}
    /\ flast' = [op |-> "eq", ok |-> FormulaEq(fself, fpat), pre |-> NoSubstitutions]
    /\ UNCHANGED <<fself, fpat, fthird, subs, fout, subs2>>
    /\ UNCHANGED <<vvars, rvars, others>>

ENext ==
    \/ \E n \in 1..Len(fself.tree) : EShare(n)
    \/ ECompare

SpecEq == EInit /\ [][ENext]_allvars

(***************************************************************************)
(* Structural identity of two subtrees, independent of sub_eq: the same    *)
(* label, the same number of children, the children pairwise identical.    *)
(***************************************************************************)
RECURSIVE SameSubtree(_, _, _, _)
SameSubtree(f, n, g, m) ==
    /\ f.tree[n].label = g.tree[m].label
    /\ Len(f.tree[n].children) = Len(g.tree[m].children)
    /\ \A ci \in 1..Len(f.tree[n].children) :
          SameSubtree(f, f.tree[n].children[ci], g, g.tree[m].children[ci])

SameFormula(f, g) == SameSubtree(f, f.root, g, g.root)

\* C3: two formulas compare equal (Formula == Formula) if and only if their
\* roots denote structurally identical subtrees; in particular two nodes with
\* the same label and different non-zero child counts are not equal.
C3_EqIffStructural ==
    flast.op = "eq" => (flast.ok <=> SameFormula(fself, fpat))

\* C4: formula equality is an equivalence relation over the formulas the
\* builder produces: reflexive, symmetric and transitive.
EqReflexive(F) == \A f \in F : FormulaEq(f, f)
EqSymmetric(F) == \A f, g \in F : FormulaEq(f, g) => FormulaEq(g, f)
EqTransitive(F) ==
    \A f, g, h \in F : FormulaEq(f, g) /\ FormulaEq(g, h) => FormulaEq(f, h)

C4_EqEquivalence ==
    flast.op = "eq" =>
        LET F == {fself, fpat, fthird[1]}
        IN  EqReflexive(F) /\ EqSymmetric(F) /\ EqTransitive(F)

\* the part of C4 the code keeps: == is reflexive and symmetric
C4_EqReflSym ==
    flast.op = "eq" =>
        LET F == {fself, fpat, fthird[1]}
        IN  EqReflexive(F) /\ EqSymmetric(F)

(***************************************************************************)
(* Properties of unify and substitute.                                     *)
(***************************************************************************)
\* C1: unification soundness.  If self.unify(pattern, subs) returns Ok then
\* pattern.substitute(subs), with the substitution the call left, is equal
\* to self under formula equality.
C1_UnifySound ==
    /\ (flast.op = "unify" /\ flast.ok)
          => FormulaEq(substitute(fpat, subs, CheckArc), fself)
    /\ (flast.op = "unify_out" /\ flast.ok)
          => FormulaEq(substitute(fpat, subs2, CheckArc), fout[1])

VarNodes(f) == {n \in 1..Len(f.tree) : is_variable(f, n)}
VarLabels(f) == {f.tree[n].label : n \in VarNodes(f)}

\* a successful unify that started from a non-empty substitution, against a
\* pattern with two variable nodes
C1_Witness ==
    /\ flast.op = "unify" /\ flast.ok
    /\ flast.pre # NoSubstitutions
    /\ Cardinality(VarNodes(fpat)) = 2
    /\ Len(fself.tree) = MaxNodes

\* s binds exactly the variables of f, each to a from_float singleton
IsFloat(g) ==
    /\ Len(g.tree) = 1 /\ g.root = 1 /\ g.variables = {1}
    /\ g.tree[1].children = << >>
    /\ g.tree[1].label \in WorkLabels

BindsVarsToFloats(s, f) ==
    /\ DOMAIN s = VarLabels(f)
    /\ \A v \in DOMAIN s : IsFloat(s[v])

\* C2: substitution round trip.  For s binding exactly the variables of F to
\* fresh from_float singletons, unifying substitute(F, s) against F from an
\* empty substitution returns Ok and yields s' with s'[v] == s[v] for every
\* v bound by s.
C2_RoundTrip ==
    (flast.op = "unify_out" /\ BindsVarsToFloats(subs, fpat)) =>
        /\ flast.ok
        /\ \A v \in DOMAIN subs : IsBound(subs2, v) /\ FormulaEq(subs2[v], subs[v])

C2_Witness ==
    /\ flast.op = "unify_out"
    /\ BindsVarsToFloats(subs, fpat)
    /\ Cardinality(DOMAIN subs) = 2
    /\ subs[LabelSeq[1]] # subs[LabelSeq[2]]

\* C5: at a non-variable pattern node unify fails whenever the pattern node
\* and the self node differ in label or in their number of children (stated
\* at the roots, which unify always reaches).
C5_UnifyLengthMismatchFails ==
    ( /\ flast.op = "unify"
      /\ ~is_variable(fpat, fpat.root)
      /\ \/ fself.tree[fself.root].label # fpat.tree[fpat.root].label
         \/ Len(children_iter(fself.tree, fself.root))
              # Len(children_iter(fpat.tree, fpat.root)) )
    => ~flast.ok

\* the part of C5 the code keeps: a label mismatch, or children on one side
\* only, fails
C5_UnifyPresenceMismatchFails ==
    ( /\ flast.op = "unify"
      /\ ~is_variable(fpat, fpat.root)
      /\ \/ fself.tree[fself.root].label # fpat.tree[fpat.root].label
         \/ (children_iter(fself.tree, fself.root) = << >>)
              # (children_iter(fpat.tree, fpat.root) = << >>) )
    => ~flast.ok

(***************************************************************************)
(* C6.  The pairs <<self node, pattern variable node>> that unify matches, *)
(* in the order of the traversal, and the test of the non-variable nodes.  *)
(***************************************************************************)
RECURSIVE MatchedPairs(_, _, _, _)
RECURSIVE MatchedPairsOfChildren(_, _, _, _, _)
MatchedPairs(self, sn, pat, pn) ==
    IF is_variable(pat, pn) THEN << <<sn, pn>> >>
    ELSE MatchedPairsOfChildren(self, self.tree[sn].children, pat, pat.tree[pn].children, 1)

MatchedPairsOfChildren(self, sc, pat, pch, ci) ==
    IF ci > Min(Len(sc), Len(pch)) THEN << >>
    ELSE MatchedPairs(self, sc[ci], pat, pch[ci])
            \o MatchedPairsOfChildren(self, sc, pat, pch, ci + 1)

RECURSIVE SkeletonMatches(_, _, _, _)
SkeletonMatches(self, sn, pat, pn) ==
    \/ is_variable(pat, pn)
    \/ /\ self.tree[sn].label = pat.tree[pn].label
       /\ (self.tree[sn].children = << >>) = (pat.tree[pn].children = << >>)
       /\ \A ci \in 1..Min(Len(self.tree[sn].children), Len(pat.tree[pn].children)) :
             SkeletonMatches(self, self.tree[sn].children[ci], pat, pat.tree[pn].children[ci])

\* the formula a pattern variable v stands for: its binding on entry, else
\* the self subtree at the first pair that matches v
BoundTo(self, pat, pairs, pre, v) ==
    IF IsBound(pre, v) THEN pre[v]
    ELSE LET first == CHOOSE ci \in 1..Len(pairs) :
                         /\ pat.tree[pairs[ci][2]].label = v
                         /\ \A j \in 1..(ci - 1) : pat.tree[pairs[j][2]].label # v
         IN  [typecode |-> self.typecode, tree |-> self.tree, arc |-> self.arc,
              root |-> pairs[first][1], variables |-> self.variables]

PairsAgree(self, pat, pairs, pre) ==
    \A ci \in 1..Len(pairs) :
        LET b == BoundTo(self, pat, pairs, pre, pat.tree[pairs[ci][2]].label)
        IN  sub_eq(self, pairs[ci][1], b, b.root)

\* C6: unify succeeds only if every self subtree matched against a variable v
\* is equal to the formula bound to v (on entry, or at the first occurrence
\* of v, which binds v to the self subtree there), and fails otherwise.
C6_RepeatedVariable ==
    flast.op = "unify" =>
        LET pairs == MatchedPairs(fself, fself.root, fpat, fpat.root)
            skel  == SkeletonMatches(fself, fself.root, fpat, fpat.root)
        IN  /\ flast.ok =>
                /\ PairsAgree(fself, fpat, pairs, flast.pre)
                /\ \A ci \in 1..Len(pairs) :
                      LET v == fpat.tree[pairs[ci][2]].label
                      IN  /\ IsBound(subs, v)
                          /\ subs[v] = BoundTo(fself, fpat, pairs, flast.pre, v)
            /\ (skel /\ ~flast.ok) => ~PairsAgree(fself, fpat, pairs, flast.pre)
            /\ (skel /\ PairsAgree(fself, fpat, pairs, flast.pre)) => flast.ok

\* a(x, y) against the pattern a(v, v) with v a variable, from an empty
\* substitution: Ok when x and y are the same leaf, failed otherwise
TwoLeaves(f) ==
    /\ Len(f.tree[f.root].children) = 2
    /\ \A ci \in 1..2 : f.tree[f.tree[f.root].children[ci]].children = << >>

C6_Witness ==
    /\ flast.op = "unify" /\ flast.ok /\ flast.pre = NoSubstitutions
    /\ TwoLeaves(fself) /\ TwoLeaves(fpat)
    /\ Cardinality(VarNodes(fpat)) = 2 /\ Cardinality(VarLabels(fpat)) = 1

(***************************************************************************)
(*                        The proof verifier                               *)
(***************************************************************************)

(***************************************************************************)
(* Bitset { head: usize, tail: Option<Box<Vec<usize>>> }.  A word is a     *)
(* natural number below 2^bits_per_word; a missing tail is the empty       *)
(* sequence, as tail() returns it.                                         *)
(***************************************************************************)
\* log2 of the width of a machine word
WordExp == 0

RECURSIVE Pow2(_)
Pow2(n) == IF n = 0 THEN 1 ELSE 2 * Pow2(n - 1)

bits_per_word == Pow2(WordExp)

\* (word & (1 << bit)) != 0
WordHasBit(word, bit) == (word \div Pow2(bit)) % 2 = 1

\* word | (1 << bit)
WordSetBit(word, bit) == IF WordHasBit(word, bit) THEN word ELSE word + Pow2(bit)

\* a | b
RECURSIVE WordOr(_, _)
WordOr(a, b) ==
    IF a = 0 THEN b
    ELSE IF b = 0 THEN a
    ELSE (IF a % 2 = 1 \/ b % 2 = 1 THEN 1 ELSE 0) + 2 * WordOr(a \div 2, b \div 2)

\* word.trailing_zeros(), for word != 0
RECURSIVE trailing_zeros(_)
trailing_zeros(word) == IF word % 2 = 1 THEN 0 ELSE 1 + trailing_zeros(word \div 2)

\* Vec::resize(len, 0) when len exceeds the length
Resize(vec, len) ==
    IF len > Len(vec) THEN vec \o [j \in 1..(len - Len(vec)) |-> 0] ELSE vec

BitsetNew == [head |-> 0, tail |-> << >>]

set_bit(b, bit) ==
    IF bit < bits_per_word
    THEN [b EXCEPT !.head = WordSetBit(@, bit)]
    ELSE LET word == (bit \div bits_per_word) - 1
             tail == Resize(b.tail, word + 1)
         IN  [b EXCEPT !.tail =
                 [tail EXCEPT ![word + 1] = WordSetBit(@, bit % bits_per_word)]]

has_bit(b, bit) ==
    IF bit < bits_per_word
    THEN WordHasBit(b.head, bit)
    ELSE LET word == (bit \div bits_per_word) - 1
         IN  IF word >= Len(b.tail) THEN FALSE
             ELSE WordHasBit(b.tail[word + 1], bit % bits_per_word)

\* mutant: only the inline words are united
bitor_assign_headonly(self, rhs) == [self EXCEPT !.head = WordOr(self.head, rhs.head)]

bitor_assign(self, rhs) ==
    LET head == WordOr(self.head, rhs.head)
    IN  IF rhs.tail # << >>
        THEN LET stail == Resize(self.tail, Len(rhs.tail))
             IN  [head |-> head,
                  tail |-> [j \in 1..Len(stail) |->
                              IF j <= Len(rhs.tail) THEN WordOr(stail[j], rhs.tail[j])
                              ELSE stail[j]]]
        ELSE [head |-> head, tail |-> self.tail]

\* BitsetIter: the sequence of the indices next() yields
RECURSIVE BitsetIterFrom(_, _, _)
BitsetIterFrom(bits, offset, buffer) ==
    IF bits = 0
    THEN IF buffer = << >> THEN << >>
         ELSE BitsetIterFrom(Head(buffer), offset + bits_per_word, Tail(buffer))
    ELSE LET tz == trailing_zeros(bits)
         IN  << tz + offset >> \o BitsetIterFrom(bits - Pow2(tz), offset, buffer)

\* mutant: the iteration ends with the inline word
into_iter_headonly(b) == BitsetIterFrom(b.head, 0, << >>)

into_iter(b) == BitsetIterFrom(b.head, 0, b.tail)

(***************************************************************************)
(* The database the verifier reads: segments, statements and the frames of *)
(* the scope result.  Indices (variable_index, Var(ix), DV pairs, ranges,  *)
(* statement indices) are zero-based as in the source.                     *)
(*                                                                         *)
(*   main:  0 wp $f wff p        1 wq $f wff q        2 tt $a wff t        *)
(*          3 ${  4 $d p q       5 wd $a wff D p q                         *)
(*          6 e1 $e |- p         7 ae $a |- T p       8 $}                 *)
(*          9 ${  10 $d p q      11 th1 $p wff D p q  12 $}                *)
(*          13 th0 $p (no frame)                                           *)
(*   ext:   0 ${  1 h1 $e |- q   2 th2 $p |- T q      3 $}                 *)
(***************************************************************************)
NO_STATEMENT == -1

\* a token followed by the separator
Tok(c) == <<c, " ">>

Var(ix) == [var |-> TRUE, ix |-> ix, string |-> << >>]
Constant(string) == [var |-> FALSE, ix |-> 0, string |-> string]

Address(seg, index) == [segment_id |-> seg, index |-> index]

\* the segments in the order of SegmentOrder
SegmentOrder == <<"main", "ext">>

Stmt(label, stype) == [label |-> label, stype |-> stype]

Statements(sid) ==
    IF sid = "main"
    THEN << Stmt("wp", "Floating"), Stmt("wq", "Floating"), Stmt("tt", "Axiom"),
            Stmt("", "OpenGroup"), Stmt("", "Disjoint"), Stmt("wd", "Axiom"),
            Stmt("e1", "Essential"), Stmt("ae", "Axiom"), Stmt("", "CloseGroup"),
            Stmt("", "OpenGroup"), Stmt("", "Disjoint"), Stmt("th1", "Provable"),
            Stmt("", "CloseGroup"), Stmt("th0", "Provable") >>
    ELSE << Stmt("", "OpenGroup"), Stmt("h1", "Essential"),
            Stmt("wr", "Floating"), Stmt("a2", "Axiom"),
            Stmt("th2", "Provable"), Stmt("", "CloseGroup") >>

FloatHyp(label, typecode, variable_index) ==
    [label |-> label, is_float |-> TRUE, variable_index |-> variable_index,
     expr |-> [typecode |-> typecode, tail |-> << Var(variable_index) >>]]

EssenHyp(label, typecode, tail) ==
    [label |-> label, is_float |-> FALSE, variable_index |-> 0,
     expr |-> [typecode |-> typecode, tail |-> tail]]

MkFrame(stype, start, end, hyps, mvars, mdv, odv, typecode, tail, stub) ==
    [stype |-> stype, valid |-> [start |-> start, end |-> end],
     hypotheses |-> hyps, mandatory_vars |-> mvars, mandatory_dv |-> mdv,
     optional_dv |-> odv, target |-> [typecode |-> typecode, tail |-> tail],
     stub_expr |-> stub]

FrameLabels == {"wp", "wq", "tt", "wd", "e1", "ae", "th1", "h1", "wr", "a2", "th2"}

Frames ==
    [l \in FrameLabels |->
       CASE l = "wp" -> MkFrame("Floating", Address("main", 0), NO_STATEMENT, << >>,
                                << <<"p">> >>, << >>, << >>,
                                "wff", << Var(0) >>, Tok("p"))
         [] l = "wq" -> MkFrame("Floating", Address("main", 1), NO_STATEMENT, << >>,
                                << <<"q">> >>, << >>, << >>,
                                "wff", << Var(0) >>, Tok("q"))
         [] l = "tt" -> MkFrame("Axiom", Address("main", 2), NO_STATEMENT, << >>,
                                << >>, << >>, << >>,
                                "wff", << Constant(Tok("t")) >>, << >>)
         [] l = "wd" -> MkFrame("Axiom", Address("main", 5), NO_STATEMENT,
                                << FloatHyp("wp", "wff", 0), FloatHyp("wq", "wff", 1) >>,
                                << <<"p">>, <<"q">> >>, << <<0, 1>> >>, << >>,
                                "wff", << Constant(Tok("D")), Var(0), Var(1) >>, << >>)
         [] l = "e1" -> MkFrame("Essential", Address("main", 6), 8, << >>,
                                << <<"p">> >>, << >>, << >>,
                                "|-", << Var(0) >>, Tok("p"))
         [] l = "ae" -> MkFrame("Axiom", Address("main", 7), NO_STATEMENT,
                                << FloatHyp("wp", "wff", 0),
                                   EssenHyp("e1", "|-", << Var(0) >>) >>,
                                << <<"p">> >>, << >>, << >>,
                                "|-", << Constant(Tok("T")), Var(0) >>, << >>)
         [] l = "th1" -> MkFrame("Provable", Address("main", 11), NO_STATEMENT,
                                << FloatHyp("wp", "wff", 0), FloatHyp("wq", "wff", 1) >>,
                                << <<"p">>, <<"q">> >>, << >>, << << <<"p">>, <<"q">> >> >>,
                                "wff", << Constant(Tok("D")), Var(0), Var(1) >>, << >>)
         [] l = "h1" -> MkFrame("Essential", Address("ext", 1), 5, << >>,
                                << <<"q">> >>, << >>, << >>,
                                "|-", << Var(0) >>, Tok("q"))
         [] l = "wr" -> MkFrame("Floating", Address("ext", 2), 5, << >>,
                                << <<"r">> >>, << >>, << >>,
                                "wff", << Var(0) >>, Tok("r"))
         [] l = "a2" -> MkFrame("Axiom", Address("ext", 3), NO_STATEMENT,
                                << FloatHyp("wq", "wff", 0),
                                   EssenHyp("h1", "|-", << Var(0) >>),
                                   FloatHyp("wr", "wff", 1) >>,
                                << <<"q">>, <<"r">> >>, << >>, << >>,
                                "|-", << Constant(Tok("T")), Var(1) >>, << >>)
         [] l = "th2" -> MkFrame("Provable", Address("ext", 4), NO_STATEMENT,
                                << FloatHyp("wq", "wff", 0),
                                   EssenHyp("h1", "|-", << Var(0) >>) >>,
                                << <<"q">> >>, << >>, << >>,
                                "|-", << Constant(Tok("T")), Var(0) >>, << >>)]

\* ScopeReader::get
HasFrame(label) == label \in FrameLabels

\* the labels a proof may cite: every frame, and a label with no frame
ProofLabels == FrameLabels \cup {"zz"}

\* SegmentOrder::cmp(a, b) as "Less", "Equal" or "Greater"
SegmentRank(sid) == CHOOSE r \in 1..Len(SegmentOrder) : SegmentOrder[r] = sid

order_cmp(a, b) ==
    LET ra == SegmentRank(a.segment_id)
        rb == SegmentRank(b.segment_id)
    IN  IF ra < rb THEN "Less"
        ELSE IF ra > rb THEN "Greater"
        ELSE IF a.index < b.index THEN "Less"
        ELSE IF a.index > b.index THEN "Greater"
        ELSE "Equal"

(***************************************************************************)
(* Diagnostics: None, or <<kind, label>> (label "" when the diagnostic     *)
(* carries none).  An operation yields [err, state].                       *)
(***************************************************************************)
None == << >>
Diag(kind) == <<kind, "">>
DiagL(kind, label) == <<kind, label>>

Result(err, st) == [err |-> err, state |-> st]

\* Range start..end, zero-based and half-open; &buf[range]
Range(start, end) == [start |-> start, end |-> end]
Slice(buf, r) == SubSeq(buf, r.start + 1, r.end)

\* fast_truncate(buf, len)
Truncate(buf, len) == SubSeq(buf, 1, len)

(***************************************************************************)
(* VerifyState, as verify_proof constructs it.                             *)
(***************************************************************************)
NewVerifyState(cur_frame) ==
    [cur_frame |-> cur_frame, stack |-> << >>, stack_buffer |-> << >>,
     prepared |-> << >>, prep_buffer |-> << >>, temp_buffer |-> << >>,
     subst_vars |-> << >>, subst_exprs |-> << >>,
     var2bit |-> << >>, dv_map |-> << >>]

map_var(st, token) ==
    LET nbit == Cardinality(DOMAIN st.var2bit)
    IN  IF token \in DOMAIN st.var2bit
        THEN [ix |-> st.var2bit[token], state |-> st]
        ELSE [ix |-> nbit,
              state |-> [st EXCEPT
                 !.var2bit = [t \in (DOMAIN st.var2bit) \cup {token} |->
                                 IF t = token THEN nbit ELSE st.var2bit[t]],
                 !.dv_map = Append(@, BitsetNew)]]

\* mutant: the pair is recorded in one direction only
RegisterDv_oneway(st, var1, var2) ==
    LET m1 == map_var(st, var1)
        m2 == map_var(m1.state, var2)
    IN  [m2.state EXCEPT !.dv_map[m1.ix + 1] = set_bit(@, m2.ix)]

\* the body of the loop over cur_frame.optional_dv
RegisterDv(st, var1, var2) ==
    LET m1 == map_var(st, var1)
        m2 == map_var(m1.state, var2)
        d1 == [m2.state EXCEPT !.dv_map[m1.ix + 1] = set_bit(@, m2.ix)]
    IN  [d1 EXCEPT !.dv_map[m2.ix + 1] = set_bit(@, m1.ix)]

RECURSIVE RegisterOptionalDv(_, _, _)
RegisterOptionalDv(st, dvs, n) ==
    IF n > Len(dvs) THEN st
    ELSE RegisterOptionalDv(RegisterDv(st, dvs[n][1], dvs[n][2]), dvs, n + 1)

(***************************************************************************)
(* prepare_step                                                            *)
(***************************************************************************)
\* the loop over frame.mandatory_vars of a hypothesis: [vars, state]
RECURSIVE MapVars(_, _, _, _)
MapVars(st, mvars, n, vars) ==
    IF n > Len(mvars) THEN [vars |-> vars, state |-> st]
    ELSE LET m == map_var(st, mvars[n])
         IN  MapVars(m.state, mvars, n + 1, set_bit(vars, m.ix))

\* mutant: a statement may cite itself
UsedBeforeDefinition_self(pos, valid) == order_cmp(pos, valid.start) = "Less"

UsedBeforeDefinition(pos, valid) == order_cmp(pos, valid.start) # "Greater"

\* mutant: the segment is not compared
UsedAfterScope_anysegment(pos, valid) ==
    /\ valid.end # NO_STATEMENT
    /\ pos.index >= valid.end

UsedAfterScope(pos, valid) ==
    /\ valid.end # NO_STATEMENT
    /\ (pos.segment_id # valid.start.segment_id \/ pos.index >= valid.end)

prepare_step(st, label) ==
    IF ~HasFrame(label) THEN Result(DiagL("StepMissing", label), st)
    ELSE
    LET frame == Frames[label]
        valid == frame.valid
        pos   == Frames[st.cur_frame].valid.start
    IN  IF UsedBeforeDefinition(pos, valid)
        THEN Result(DiagL("StepUsedBeforeDefinition", label), st)
        ELSE IF UsedAfterScope(pos, valid)
        THEN Result(DiagL("StepUsedAfterScope", label), st)
        ELSE IF frame.stype = "Axiom" \/ frame.stype = "Provable"
        THEN Result(None, [st EXCEPT !.prepared =
                              Append(@, [kind |-> "Assert", frame |-> label,
                                         vars |-> BitsetNew, code |-> "",
                                         expr |-> Range(0, 0)])])
        ELSE LET mv   == MapVars(st, frame.mandatory_vars, 1, BitsetNew)
                 tos  == Len(mv.state.prep_buffer)
                 buf  == mv.state.prep_buffer \o frame.stub_expr
                 ntos == Len(buf)
             IN  Result(None, [mv.state EXCEPT
                    !.prep_buffer = buf,
                    !.prepared = Append(@, [kind |-> "Hyp", frame |-> "",
                                            vars |-> mv.vars,
                                            code |-> frame.target.typecode,
                                            expr |-> Range(tos, ntos)])])

(***************************************************************************)
(* do_substitute, do_substitute_raw, do_substitute_vars                    *)
(***************************************************************************)
\* mutant: a variable is replaced by nothing
RECURSIVE do_substitute_constants(_, _, _, _)
do_substitute_constants(target, expr, vars, var_buffer) ==
    IF expr = << >> THEN target
    ELSE do_substitute_constants(
             IF Head(expr).var THEN target ELSE target \o Head(expr).string,
             Tail(expr), vars, var_buffer)

RECURSIVE do_substitute(_, _, _, _)
do_substitute(target, expr, vars, var_buffer) ==
    IF expr = << >> THEN target
    ELSE LET part == Head(expr)
         IN  do_substitute(
                 IF part.var THEN target \o Slice(var_buffer, vars[part.ix + 1])
                             ELSE target \o part.string,
                 Tail(expr), vars, var_buffer)

RECURSIVE do_substitute_raw(_, _, _)
do_substitute_raw(target, expr, vars) ==
    IF expr = << >> THEN target
    ELSE LET part == Head(expr)
         IN  do_substitute_raw(
                 IF part.var THEN (target \o vars[part.ix + 1]) \o << " " >>
                             ELSE target \o part.string,
                 Tail(expr), vars)

RECURSIVE do_substitute_vars_from(_, _, _)
do_substitute_vars_from(out, expr, vars) ==
    IF expr = << >> THEN out
    ELSE LET part == Head(expr)
         IN  do_substitute_vars_from(
                 IF part.var THEN bitor_assign(out, vars[part.ix + 1]) ELSE out,
                 Tail(expr), vars)

do_substitute_vars(expr, vars) == do_substitute_vars_from(BitsetNew, expr, vars)

(***************************************************************************)
(* execute_step                                                            *)
(***************************************************************************)
\* mutant: the essential hypotheses are checked in the same loop, each where
\* it stands
RECURSIVE FloatPass_onepass(_, _, _, _)
FloatPass_onepass(st, hyps, sbase, ix) ==
    IF ix >= Len(hyps) THEN Result(None, st)
    ELSE LET hyp  == hyps[ix + 1]
             slot == st.stack[sbase + ix + 1]
         IN  IF hyp.is_float
             THEN IF slot.code # hyp.expr.typecode
                  THEN Result(Diag("StepFloatWrongType"), st)
                  ELSE FloatPass_onepass(
                         [st EXCEPT
                            !.subst_vars[hyp.variable_index + 1] = slot.vars,
                            !.subst_exprs[hyp.variable_index + 1] = slot.expr],
                         hyps, sbase, ix + 1)
             ELSE IF slot.code # hyp.expr.typecode
                  THEN Result(Diag("StepEssenWrongType"), st)
                  ELSE IF Slice(st.stack_buffer, slot.expr)
                            # do_substitute(<< >>, hyp.expr.tail,
                                            st.subst_exprs, st.stack_buffer)
                  THEN Result(Diag("StepEssenWrong"), st)
                  ELSE FloatPass_onepass(st, hyps, sbase, ix + 1)

\* the loop "check $f, build substitution", from hypothesis ix (zero-based)
RECURSIVE FloatPass(_, _, _, _)
FloatPass(st, hyps, sbase, ix) ==
    IF ix >= Len(hyps) THEN Result(None, st)
    ELSE LET hyp == hyps[ix + 1]
         IN  IF hyp.is_float
             THEN LET slot == st.stack[sbase + ix + 1]
                  IN  IF slot.code # hyp.expr.typecode
                      THEN Result(Diag("StepFloatWrongType"), st)
                      ELSE FloatPass(
                             [st EXCEPT
                                !.subst_vars[hyp.variable_index + 1] = slot.vars,
                                !.subst_exprs[hyp.variable_index + 1] = slot.expr],
                             hyps, sbase, ix + 1)
             ELSE FloatPass(st, hyps, sbase, ix + 1)

\* the loop "check $e", from hypothesis ix (zero-based)
RECURSIVE EssenPass(_, _, _, _)
EssenPass(st, hyps, sbase, ix) ==
    IF ix >= Len(hyps) THEN Result(None, st)
    ELSE LET hyp == hyps[ix + 1]
         IN  IF ~hyp.is_float
             THEN LET slot == st.stack[sbase + ix + 1]
                      temp == do_substitute(<< >>, hyp.expr.tail,
                                            st.subst_exprs, st.stack_buffer)
                      st1  == [st EXCEPT !.temp_buffer = temp]
                  IN  IF slot.code # hyp.expr.typecode
                      THEN Result(Diag("StepEssenWrongType"), st)
                      ELSE IF Slice(st.stack_buffer, slot.expr) # temp
                      THEN Result(Diag("StepEssenWrong"), st1)
                      ELSE EssenPass(st1, hyps, sbase, ix + 1)
             ELSE EssenPass(st, hyps, sbase, ix + 1)

\* mutant: a variable is taken to be disjoint from every variable
DvPairOk_always(st, var1, var2) == TRUE

\* state.dv_map[var1].has_bit(var2)
DvPairOk(st, var1, var2) == has_bit(st.dv_map[var1 + 1], var2)

\* the loop "check $d": some iteration returns ProofDvViolation
DvViolation(st, fref) ==
    \E n \in 1..Len(fref.mandatory_dv) :
       LET ix1 == fref.mandatory_dv[n][1]
           ix2 == fref.mandatory_dv[n][2]
           it1 == into_iter(st.subst_vars[ix1 + 1])
           it2 == into_iter(st.subst_vars[ix2 + 1])
       IN  \E a \in 1..Len(it1), b \in 1..Len(it2) : ~DvPairOk(st, it1[a], it2[b])

\* mutant: the buffer is cut where the new top slot starts
BufferEnd_start(stack, sbase) == IF sbase = 0 THEN 0 ELSE stack[sbase].expr.start

\* the length stack_buffer is truncated to: the end of the slot that is the
\* top of the truncated stack
BufferEnd(stack, sbase) == IF sbase = 0 THEN 0 ELSE stack[sbase].expr.end

\* the Assert arm, once the hypotheses are known to be on the stack
ExecuteAssert(st, fref) ==
    LET sbase == Len(st.stack) - Len(fref.hypotheses)
        nvars == Len(fref.mandatory_vars)
        st0 == [st EXCEPT !.subst_exprs = [j \in 1..nvars |-> Range(0, 0)],
                          !.subst_vars  = [j \in 1..nvars |-> BitsetNew]]
        fl  == FloatPass(st0, fref.hypotheses, sbase, 0)
        es  == EssenPass(fl.state, fref.hypotheses, sbase, 0)
        s2  == es.state
        temp == do_substitute(<< >>, fref.target.tail,
                              s2.subst_exprs, s2.stack_buffer)
        stack1 == Truncate(s2.stack, sbase)
        sbuf1  == Truncate(s2.stack_buffer, BufferEnd(stack1, sbase))
        tos  == Len(sbuf1)
        sbuf2 == sbuf1 \o temp
        ntos == Len(sbuf2)
        s3 == [s2 EXCEPT
                 !.temp_buffer = temp,
                 !.stack_buffer = sbuf2,
                 !.stack = Append(stack1,
                     [code |-> fref.target.typecode,
                      vars |-> do_substitute_vars(fref.target.tail, s2.subst_vars),
                      expr |-> Range(tos, ntos)])]
    IN  IF fl.err # None THEN fl
        ELSE IF es.err # None THEN es
        ELSE IF DvViolation(s3, fref) THEN Result(Diag("ProofDvViolation"), s3)
        ELSE Result(None, s3)

execute_step(st, index) ==
    IF index >= Len(st.prepared) THEN Result(Diag("StepOutOfRange"), st)
    ELSE
    LET step == st.prepared[index + 1]
    IN  IF step.kind = "Hyp"
        THEN LET tos  == Len(st.stack_buffer)
                 buf  == st.stack_buffer \o Slice(st.prep_buffer, step.expr)
                 ntos == Len(buf)
             IN  Result(None, [st EXCEPT
                    !.stack_buffer = buf,
                    !.stack = Append(@, [vars |-> step.vars, code |-> step.code,
                                         expr |-> Range(tos, ntos)])])
        ELSE IF Len(st.stack) < Len(Frames[step.frame].hypotheses)
        THEN Result(Diag("ProofUnderflow"), st)
        ELSE ExecuteAssert(st, Frames[step.frame])

(***************************************************************************)
(* finalize_step, save_step                                                *)
(***************************************************************************)
\* mutant: only the top of the stack is looked at
finalize_step_toponly(st) ==
    IF Len(st.stack) = 0 THEN Result(Diag("ProofNoSteps"), st)
    ELSE
    LET tos  == st.stack[Len(st.stack)]
        cur  == Frames[st.cur_frame]
        temp == do_substitute_raw(<< >>, cur.target.tail, cur.mandatory_vars)
        st1  == [st EXCEPT !.temp_buffer = temp]
    IN  IF tos.code # cur.target.typecode
        THEN Result(Diag("ProofWrongTypeEnd"), st)
        ELSE IF Slice(st.stack_buffer, tos.expr) # temp
        THEN Result(Diag("ProofWrongExprEnd"), st1)
        ELSE Result(None, st1)

finalize_step(st) ==
    IF Len(st.stack) = 0 THEN Result(Diag("ProofNoSteps"), st)
    ELSE IF Len(st.stack) > 1 THEN Result(Diag("ProofExcessEnd"), st)
    ELSE
    LET tos  == st.stack[Len(st.stack)]
        cur  == Frames[st.cur_frame]
        temp == do_substitute_raw(<< >>, cur.target.tail, cur.mandatory_vars)
        st1  == [st EXCEPT !.temp_buffer = temp]
    IN  IF tos.code # cur.target.typecode
        THEN Result(Diag("ProofWrongTypeEnd"), st)
        ELSE IF Slice(st.stack_buffer, tos.expr) # temp
        THEN Result(Diag("ProofWrongExprEnd"), st1)
        ELSE Result(None, st1)

\* mutant: the prepared step keeps the range of the slot in stack_buffer
save_step_nocopy(st) ==
    LET top == st.stack[Len(st.stack)]
    IN  [st EXCEPT !.prepared = Append(@, [kind |-> "Hyp", frame |-> "",
                                           vars |-> top.vars, code |-> top.code,
                                           expr |-> top.expr])]

\* called with a non-empty stack only
save_step(st) ==
    LET top  == st.stack[Len(st.stack)]
        tos  == Len(st.prep_buffer)
        buf  == st.prep_buffer \o Slice(st.stack_buffer, top.expr)
        ntos == Len(buf)
    IN  [st EXCEPT !.prep_buffer = buf,
                   !.prepared = Append(@, [kind |-> "Hyp", frame |-> "",
                                           vars |-> top.vars, code |-> top.code,
                                           expr |-> Range(tos, ntos)])]

(***************************************************************************)
(* verify, verify_segment and verify_proof as a state machine.  A proof is *)
(* read one token at a time (one character at a time inside a digit token);*)
(* each token read is any token a proof may hold there, and the proof may  *)
(* end wherever proof_len allows, up to MaxProofLen tokens.                *)
(***************************************************************************)
MaxProofLen == 4
MaxChunkLen == 2

ch_A == 65
ch_T == 84
ch_U == 85
ch_Y == 89
ch_Z == 90
ch_Question == 63

\* the characters a digit token is made of; 97 stands for any other byte
Chars == {ch_A, ch_A + 1, ch_A + 2, ch_A + 3, ch_T, ch_U, ch_Y, ch_Z,
          ch_Question, 97}

\* no VerifyState exists
NoState == [cur_frame |-> ""]

FIdle ==
    /\ fself = << >>
    /\ fpat = << >>
    /\ subs = NoSubstitutions
    /\ fout = << >>
    /\ subs2 = NoSubstitutions
    /\ flast = [op |-> "idle", ok |-> TRUE, pre |-> NoSubstitutions]
    /\ fthird = << >>

\* the record of a step: what was done (op), the Option<Diagnostic> it gave,
\* the frame an executed Assert step applied, the statement's address, the
\* label given to prepare_step, the index given to execute_step (-1 if none),
\* the digit character read (0 if none) and the continuation digits that
\* came before it since k was last 0; skipped tells that a character the
\* digit loop has no branch for was read after it
StepX(op, err, frame, addr, label, index, ch, pending) ==
    [op |-> op, err |-> err, frame |-> frame, addr |-> addr,
     label |-> label, index |-> index, ch |-> ch, pending |-> pending,
     skipped |-> FALSE]

Step(op, err, frame, addr) == StepX(op, err, frame, addr, "", -1, 0, << >>)

Init ==
    /\ FIdle
    /\ RestIdle
    /\ vseg = 1
    /\ vstmt = 0
    /\ pc = "segment"
    /\ state = NoState
    /\ i = 0
    /\ k = 0
    /\ can_save = FALSE
    /\ count = 0
    /\ cpos = 0
    /\ peek = << >>
    /\ diagnostics = << >>
    /\ last = Step("none", None, "", << >>)
    /\ checked = {}
    /\ script = << >>
    /\ run = 1
    /\ segorder = SegmentOrder
    /\ reversed = FALSE
    /\ first_run = << >>

CurSegment == segorder[vseg]

\* the index of the statement statement_iter yields after vstmt others
StmtIndex == IF reversed THEN Len(Statements(CurSegment)) - 1 - vstmt ELSE vstmt

CurStmt == Statements(CurSegment)[StmtIndex + 1]
CurAddress == Address(CurSegment, StmtIndex)

AtStatement ==
    /\ pc = "segment"
    /\ vseg <= Len(segorder)
    /\ vstmt < Len(Statements(CurSegment))

(***************************************************************************)
(* The proof of the current statement: proof_len and proof_slice_at.  A    *)
(* token of a fixed proof is [text, chars]: the text of a label token (or  *)
(* "(", ")", "?") or the characters of a digit token.                      *)
(***************************************************************************)
Scripted == DOMAIN script # {}

CurProof == script[CurStmt.label]

\* i < stmt.proof_len()
HasToken(n) == IF Scripted THEN n < Len(CurProof) ELSE n < MaxProofLen

\* i >= stmt.proof_len(); a proof has a token at least
ProofEnds(n) == IF Scripted THEN n >= Len(CurProof) ELSE n >= 1

\* stmt.proof_slice_at(n) == text
SliceIs(n, text) == Scripted => CurProof[n + 1].text = text

\* the character at pos of stmt.proof_slice_at(n) is ch
CharIs(n, pos, ch) ==
    IF Scripted
    THEN pos < Len(CurProof[n + 1].chars) /\ CurProof[n + 1].chars[pos + 1] = ch
    ELSE pos < MaxChunkLen

\* stmt.proof_slice_at(n) has pos characters
ChunkEnds(n, pos) == IF Scripted THEN pos = Len(CurProof[n + 1].chars) ELSE pos > 0

\* mutant: verify_segment gives up at the first diagnostic
StmtAfter_stop(err, index) ==
    IF err # None THEN Len(Statements(CurSegment)) ELSE index + 1

\* verify_segment: the statement the loop goes to after verify_proof returned
StmtAfter(err, index) == index + 1

\* out.diagnostics.insert(stmt.address(), diag)
DiagInsert(map, addr, diag) ==
    [a \in (DOMAIN map) \cup {addr} |-> IF a = addr THEN diag ELSE map[a]]

\* verify_proof returns err; verify_segment records it and goes on
ReturnWith(step, st) ==
    /\ diagnostics' = IF step.err # None
                      THEN DiagInsert(diagnostics, CurAddress, step.err)
                      ELSE diagnostics
    /\ vstmt' = StmtAfter(step.err, vstmt)
    /\ pc' = "segment"
    /\ state' = st
    /\ i' = 0
    /\ k' = 0
    /\ can_save' = FALSE
    /\ count' = 0
    /\ cpos' = 0
    /\ peek' = << >>
    /\ last' = step
    /\ checked' = checked \cup {CurAddress}
    /\ UNCHANGED vseg

Return(op, err, frame, st) == ReturnWith(Step(op, err, frame, CurAddress), st)

\* the frame an execute_step of prepared[index] applies, "" if none
AssertFrame(st, index) ==
    IF index < Len(st.prepared) /\ st.prepared[index + 1].kind = "Assert"
    THEN st.prepared[index + 1].frame ELSE ""

\* the record of a prepare_step(label) that gave err
PrepareStep(err, label) == StepX("prepare", err, "", CurAddress, label, -1, 0, << >>)

\* the record of an execute_step(index) in the state st that gave err
ExecuteStep(err, st, index, label, ch, pending) ==
    StepX("execute", err, AssertFrame(st, index), CurAddress, label, index, ch, pending)

\* verify_proof on a statement that is no $p, or has no frame
VerifyProofSkip ==
    /\ AtStatement
    /\ CurStmt.stype # "Provable" \/ ~HasFrame(CurStmt.label)
    /\ Return("skip", None, "", state)
    /\ UNCHANGED <<fvars, rvars, others>>

\* mutant: the hypotheses are prepared last to first
PrepareHyps_backwards(st, hyps, n) ==
    LET RECURSIVE down(_, _)
        down(s, m) ==
            IF m < 1 THEN Result(None, s)
            ELSE LET r == prepare_step(s, hyps[m].label)
                 IN  IF r.err # None THEN r ELSE down(r.state, m - 1)
    IN  down(st, Len(hyps))

\* for h in &cur_frame.hypotheses { prepare_step(h.label) }
RECURSIVE PrepareHyps(_, _, _)
PrepareHyps(st, hyps, n) ==
    IF n > Len(hyps) THEN Result(None, st)
    ELSE LET r == prepare_step(st, hyps[n].label)
         IN  IF r.err # None THEN r ELSE PrepareHyps(r.state, hyps, n + 1)

\* mutant: the statement goes on with the VerifyState of the one before
FreshState_reused(label) ==
    IF state = NoState THEN NewVerifyState(label)
    ELSE [state EXCEPT !.cur_frame = label, !.stack = << >>, !.stack_buffer = << >>,
                       !.prepared = << >>, !.prep_buffer = << >>]

\* the VerifyState verify_proof constructs
FreshState(label) == NewVerifyState(label)

\* verify_proof up to the dispatch on proof_slice_at(0); a compressed proof
\* has its hypotheses prepared here
VerifyProofBegin(first) ==
    /\ AtStatement
    /\ CurStmt.stype = "Provable" /\ HasFrame(CurStmt.label)
    /\ SliceIs(0, first)
    /\ LET cur == Frames[CurStmt.label]
           st0 == RegisterOptionalDv(FreshState(CurStmt.label), cur.optional_dv, 1)
           hp  == PrepareHyps(st0, cur.hypotheses, 1)
       IN  IF first = "("
           THEN IF hp.err # None
                THEN ReturnWith(PrepareStep(hp.err, hp.err[2]), hp.state)
                ELSE /\ pc' = "roster"
                     /\ state' = hp.state
                     /\ i' = 1
                     /\ peek' = << >>
                     /\ last' = Step("begin", None, "", CurAddress)
                     /\ UNCHANGED <<vseg, vstmt, k, can_save, count, cpos,
                                    diagnostics, checked>>
           ELSE /\ pc' = "labels"
                /\ state' = st0
                /\ i' = 0
                /\ count' = 0
                /\ peek' = << first >>
                /\ last' = Step("begin", None, "", CurAddress)
                /\ UNCHANGED <<vseg, vstmt, k, can_save, cpos, diagnostics, checked>>
    /\ UNCHANGED <<fvars, rvars, others>>

\* mutant: the digit loop starts with the flag set
CanSaveAtStart_set == TRUE

\* let mut can_save = false
CanSaveAtStart == FALSE

\* the roster loop: one token, when i < proof_len
RosterToken(chunk) ==
    /\ pc = "roster"
    /\ HasToken(i)
    /\ SliceIs(i, chunk)
    /\ IF chunk = ")"
       THEN /\ pc' = "digits"
            /\ i' = i + 1
            /\ k' = 0
            /\ can_save' = CanSaveAtStart
            /\ last' = Step("roster_end", None, "", CurAddress)
            /\ UNCHANGED <<vseg, vstmt, state, count, cpos, peek, diagnostics, checked>>
       ELSE LET r == prepare_step(state, chunk)
            IN  IF r.err # None
                THEN ReturnWith(PrepareStep(r.err, chunk), r.state)
                ELSE /\ state' = r.state
                     /\ i' = i + 1
                     /\ last' = PrepareStep(None, chunk)
                     /\ UNCHANGED <<vseg, vstmt, pc, k, can_save, count, cpos, peek,
                                    diagnostics, checked>>
    /\ UNCHANGED <<fvars, rvars, others>>

\* the roster loop when i >= proof_len
RosterUnterminated ==
    /\ pc = "roster"
    /\ ProofEnds(i)
    /\ Return("roster", Diag("ProofUnterminatedRoster"), "", state)
    /\ UNCHANGED <<fvars, rvars, others>>

\* one character consumed without leaving the proof
DigitGoesOn(step, st, newk, save) ==
    /\ state' = st
    /\ k' = newk
    /\ can_save' = save
    /\ cpos' = cpos + 1
    /\ last' = step
    /\ UNCHANGED <<vseg, vstmt, pc, i, count, peek, diagnostics, checked>>

\* the record of a digit character that executes no step
DigitStep(op, err, ch, pending) == StepX(op, err, "", CurAddress, "", -1, ch, pending)

\* the continuation digits read since the last final digit: a recognised
\* character after a continuation digit is a digit or ends the proof
Pending == IF last.op = "digit" THEN last.pending ELSE << >>

\* mutant: the final digit is added to k as it stands
FinalDigit_unscaled(acc, ch) == acc + (ch - ch_A)

\* k * 20 + (ch - b'A')
FinalDigit(acc, ch) == acc * 20 + (ch - ch_A)

\* k * 5 + 1 + (ch - b'U')
ContinuationDigit(acc, ch) == acc * 5 + 1 + (ch - ch_U)

\* mutant: no accumulator is too big
VarintTooBig_never(acc) == FALSE

\* k >= (u32::max_value() as usize / 20) - 1
VarintTooBig(acc) == acc >= 214748364 - 1

\* mutant: the pending digits are not looked at
QuestionDiag_incomplete(acc) == Diag("ProofIncomplete")

\* the diagnostic of a '?' among the digits
QuestionDiag(acc) ==
    IF acc > 0 THEN Diag("ProofMalformedVarint") ELSE Diag("ProofIncomplete")

\* mutant: a save leaves the flag set
CanSaveAfterSave_kept == TRUE

\* can_save after save_step
CanSaveAfterSave == FALSE

\* the body of "for &ch in chunk"; the first character of a token is read
\* when i < proof_len
DigitChar(ch) ==
    /\ pc = "digits"
    /\ HasToken(i)
    /\ CharIs(i, cpos, ch)
    /\ IF ch >= ch_A /\ ch <= ch_T
       THEN LET index == FinalDigit(k, ch)
                r == execute_step(state, index)
                step == ExecuteStep(r.err, state, index, "", ch, Pending)
            IN  IF r.err # None
                THEN ReturnWith(step, r.state)
                ELSE DigitGoesOn(step, r.state, 0, TRUE)
       ELSE IF ch >= ch_U /\ ch <= ch_Y
       THEN LET newk == ContinuationDigit(k, ch)
                pending == Append(Pending, ch)
            IN  IF VarintTooBig(newk)
                THEN ReturnWith(DigitStep("digit", Diag("ProofMalformedVarint"),
                                          ch, pending), state)
                ELSE DigitGoesOn(DigitStep("digit", None, ch, pending),
                                 state, newk, FALSE)
       ELSE IF ch = ch_Z
       THEN IF ~can_save
            THEN ReturnWith(DigitStep("save", Diag("ProofInvalidSave"), ch, Pending),
                            state)
            ELSE DigitGoesOn(DigitStep("save", None, ch, Pending),
                             save_step(state), k, CanSaveAfterSave)
       ELSE IF ch = ch_Question
       THEN ReturnWith(DigitStep("digit", QuestionDiag(k), ch, Pending), state)
       ELSE DigitGoesOn([last EXCEPT !.skipped = TRUE], state, k, can_save)
    /\ UNCHANGED <<fvars, rvars, others>>

\* mutant: every token starts with an accumulator of 0
AcrossTokens_reset(acc) == 0

\* k is declared before the loop over the tokens: it is the same at the
\* start of a token as at the end of the one before
AcrossTokens(acc) == acc

\* the end of a digit token: i += 1
DigitTokenEnd ==
    /\ pc = "digits"
    /\ HasToken(i)
    /\ ChunkEnds(i, cpos)
    /\ i' = i + 1
    /\ cpos' = 0
    /\ k' = AcrossTokens(k)
    /\ UNCHANGED <<vseg, vstmt, pc, state, can_save, count, peek,
                   diagnostics, last, checked>>
    /\ UNCHANGED <<fvars, rvars, others>>

\* the digit loop when i >= proof_len, and finalize_step
DigitsEnd ==
    /\ pc = "digits"
    /\ cpos = 0
    /\ ProofEnds(i)
    /\ IF k > 0
       THEN ReturnWith(DigitStep("digits_end", Diag("ProofMalformedVarint"),
                                 0, Pending), state)
       ELSE LET r == finalize_step(state)
            IN  Return("finalize", r.err, "", r.state)
    /\ UNCHANGED <<fvars, rvars, others>>

\* mutant: the step counter stays where it is
NextCount_kept(n) == n

\* count += 1
NextCount(n) == n + 1

\* the loop of an uncompressed proof: one token
LabelToken(chunk) ==
    /\ pc = "labels"
    /\ HasToken(i)
    /\ SliceIs(i, chunk)
    /\ i = 0 => chunk = peek[1]
    /\ IF chunk = "?"
       THEN Return("label", Diag("ProofIncomplete"), "", state)
       ELSE LET p == prepare_step(state, chunk)
                r == execute_step(p.state, count)
            IN  IF p.err # None THEN ReturnWith(PrepareStep(p.err, chunk), p.state)
                ELSE IF r.err # None
                THEN ReturnWith(ExecuteStep(r.err, p.state, count, chunk, 0, << >>),
                                r.state)
                ELSE /\ state' = r.state
                     /\ count' = NextCount(count)
                     /\ i' = i + 1
                     /\ peek' = << >>
                     /\ last' = ExecuteStep(None, p.state, count, chunk, 0, << >>)
                     /\ UNCHANGED <<vseg, vstmt, pc, k, can_save, cpos,
                                    diagnostics, checked>>
    /\ UNCHANGED <<fvars, rvars, others>>

\* the end of an uncompressed proof, and finalize_step
LabelsEnd ==
    /\ pc = "labels"
    /\ ProofEnds(i)
    /\ LET r == finalize_step(state)
       IN  Return("finalize", r.err, "", r.state)
    /\ UNCHANGED <<fvars, rvars, others>>

\* verify_segment has visited every statement: verify stores the segment's
\* diagnostics and goes to the next segment
SegmentEnd ==
    /\ pc = "segment"
    /\ vseg <= Len(segorder)
    /\ vstmt >= Len(Statements(CurSegment))
    /\ vseg' = vseg + 1
    /\ vstmt' = 0
    /\ pc' = IF vseg + 1 > Len(segorder) THEN "done" ELSE "segment"
    /\ UNCHANGED <<state, i, k, can_save, count, cpos, peek, diagnostics,
                   last, checked>>
    /\ UNCHANGED <<fvars, rvars, others>>

\* the tokens of an uncompressed proof, and "(" for a compressed one
FirstTokens == ProofLabels \cup {"?", "("}

Next ==
    \/ VerifyProofSkip
    \/ \E first \in FirstTokens : VerifyProofBegin(first)
    \/ \E chunk \in ProofLabels \cup {")"} : RosterToken(chunk)
    \/ RosterUnterminated
    \/ \E ch \in Chars : DigitChar(ch)
    \/ DigitTokenEnd
    \/ DigitsEnd
    \/ \E chunk \in ProofLabels \cup {"?"} : LabelToken(chunk)
    \/ LabelsEnd
    \/ SegmentEnd

Spec == Init /\ [][Next]_allvars

(***************************************************************************)
(* Two verifications of one database.  The proofs are fixed beforehand;    *)
(* the first run visits segments and statements in the order of the code,  *)
(* the second in any order.                                                *)
(***************************************************************************)
LabelTok(text) == [text |-> text, chars |-> << >>]
DigitTok(chars) == [text |-> "", chars |-> chars]

\* Y repeated until the accumulator passes the limit
LongDigits == [n \in 1..12 |-> ch_Y]

SampleProofs ==
    { << LabelTok("wp"), LabelTok("wq"), LabelTok("wd") >>,
      << LabelTok("wp"), LabelTok("wp"), LabelTok("wd") >>,
      << LabelTok("wq"), LabelTok("h1"), LabelTok("ae") >>,
      << LabelTok("?") >>,
      << LabelTok("("), LabelTok("wd"), LabelTok(")"),
         DigitTok(<< ch_A, ch_A + 1, ch_A + 2 >>) >>,
      << LabelTok("("), LabelTok("ae"), LabelTok(")"),
         DigitTok(<< ch_A, ch_A + 1 >>), DigitTok(<< ch_A + 2 >>) >>,
      << LabelTok("("), LabelTok("wd") >>,
      << LabelTok("("), LabelTok(")"), DigitTok(<< ch_A, ch_Z >>),
         DigitTok(<< ch_U >>) >>,
      << LabelTok("("), LabelTok(")"), DigitTok(LongDigits) >> }

\* the $p statements that have a frame
ProvableLabels == {l \in FrameLabels : Frames[l].stype = "Provable"}

SegmentOrders ==
    {o \in [1..Len(SegmentOrder) -> {SegmentOrder[n] : n \in 1..Len(SegmentOrder)}] :
        \A a, b \in 1..Len(SegmentOrder) : o[a] = o[b] => a = b}

RInit ==
    /\ FIdle
    /\ RestIdle
    /\ vseg = 1
    /\ vstmt = 0
    /\ pc = "segment"
    /\ state = NoState
    /\ i = 0
    /\ k = 0
    /\ can_save = FALSE
    /\ count = 0
    /\ cpos = 0
    /\ peek = << >>
    /\ diagnostics = << >>
    /\ last = Step("none", None, "", << >>)
    /\ checked = {}
    /\ script \in [ProvableLabels -> SampleProofs]
    /\ run = 1
    /\ segorder = SegmentOrder
    /\ reversed = FALSE
    /\ first_run = << >>

\* verify has returned; the same database is verified once more
Rerun(order, rev) ==
    /\ pc = "done"
    /\ Scripted
    /\ run = 1
    /\ run' = 2
    /\ first_run' = diagnostics
    /\ segorder' = order
    /\ reversed' = rev
    /\ diagnostics' = << >>
    /\ checked' = {}
    /\ vseg' = 1
    /\ vstmt' = 0
    /\ pc' = "segment"
    /\ last' = Step("none", None, "", << >>)
    /\ state' = NoState
    /\ UNCHANGED <<i, k, can_save, count, cpos, peek, script>>
    /\ UNCHANGED <<fvars, others>>

RNext ==
    \/ Next
    \/ \E order \in SegmentOrders, rev \in BOOLEAN : Rerun(order, rev)

SpecRerun == RInit /\ [][RNext]_allvars

(***************************************************************************)
(* Properties of the verifier                                              *)
(***************************************************************************)
SegmentIds == {SegmentOrder[n] : n \in 1..Len(SegmentOrder)}

AllAddresses ==
    UNION {{Address(sid, n) : n \in 0..(Len(Statements(sid)) - 1)} : sid \in SegmentIds}

\* the statements of the current segment verify_segment has gone past
Visited ==
    {Address(CurSegment,
             IF reversed THEN Len(Statements(CurSegment)) - 1 - v ELSE v) :
        v \in 0..(vstmt - 1)}

InProof == pc \in {"roster", "digits", "labels"}

C7_Returned ==
    /\ last.err # None =>
          /\ ~InProof
          /\ last.addr \in checked
          /\ last.addr \in DOMAIN diagnostics
          /\ diagnostics[last.addr] = last.err
    /\ InProof => CurAddress \notin DOMAIN diagnostics
    /\ (~InProof /\ last.op # "none" /\ last.err = None) =>
          last.addr \notin DOMAIN diagnostics
    /\ DOMAIN diagnostics \subseteq checked

C7_GoesOn ==
    /\ (pc = "segment" /\ vseg <= Len(segorder)) => Visited \subseteq checked
    /\ pc = "done" => checked = AllAddresses

C7_OneDiagnostic ==
    \A a \in DOMAIN diagnostics :
        a \in DOMAIN diagnostics' /\ diagnostics'[a] = diagnostics[a]

\* C7: a diagnostic given by a step of verify_proof is the statement's
\* diagnostic, recorded at once with no further token of the proof read and
\* never replaced; verify_segment calls verify_proof on every statement of
\* the segment, whatever the earlier statements gave.
C7_ErrorModel == [](C7_Returned /\ C7_GoesOn) /\ [][C7_OneDiagnostic]_allvars

\* th1 has a diagnostic, and the statements after it, th2 in the next
\* segment included, have been verified all the same
C7_Witness ==
    /\ pc = "done"
    /\ Address("main", 11) \in DOMAIN diagnostics
    /\ Address("main", 13) \in checked
    /\ Address("ext", 4) \in checked
    /\ Address("ext", 4) \notin DOMAIN diagnostics

\* C8: a second verification of the same database, visiting segments and
\* statements in any order, gives every statement the diagnostic the first
\* gave; a statement's check starts from a new VerifyState with only the
\* optional DV pairs of its own frame registered.
C8_Deterministic ==
    /\ (run = 2 /\ pc = "done") => diagnostics = first_run
    /\ (last.op = "begin" /\ pc = "labels") =>
          state = RegisterOptionalDv(NewVerifyState(CurStmt.label),
                                     Frames[CurStmt.label].optional_dv, 1)

\* the second run, in the opposite order, has finished: th1 failed in both
\* runs and th2 passed in both
C8_Witness ==
    /\ run = 2
    /\ pc = "done"
    /\ segorder = << "ext", "main" >>
    /\ reversed
    /\ DOMAIN diagnostics = {Address("main", 11)}
    /\ DOMAIN first_run = {Address("main", 11)}

\* C9: dv_map is symmetric in every state of a verification.
C9_DvSymmetric ==
    state # NoState =>
        \A a, b \in 0..(Len(state.dv_map) - 1) :
            has_bit(state.dv_map[a + 1], b) => has_bit(state.dv_map[b + 1], a)

\* steps have been executed in a state whose dv_map holds a pair
C9_Witness ==
    /\ state # NoState
    /\ last.op = "execute"
    /\ Len(state.stack) > 0
    /\ \E a, b \in 0..(Len(state.dv_map) - 1) :
          a # b /\ has_bit(state.dv_map[a + 1], b) /\ has_bit(state.dv_map[b + 1], a)

\* the diagnostics of the hypothesis checks of execute_step
HypErrors == {"StepOutOfRange", "ProofUnderflow", "StepFloatWrongType",
              "StepEssenWrongType", "StepEssenWrong"}

\* an Assert step has just run and passed the hypothesis checks
AssertPassedHyps ==
    /\ last.op = "execute"
    /\ last.frame # ""
    /\ last.err # None => last.err[1] \notin HypErrors

\* the variables a Bitset holds, by has_bit
BitsOf(b) == {n \in 0..(Len(state.dv_map) - 1) : has_bit(b, n)}

DvPairBroken(k1, k2) ==
    \E v1 \in BitsOf(state.subst_vars[k1 + 1]), v2 \in BitsOf(state.subst_vars[k2 + 1]) :
        ~has_bit(state.dv_map[v1 + 1], v2)

SharedVariable(k1, k2) ==
    \E v \in BitsOf(state.subst_vars[k1 + 1]) \cap BitsOf(state.subst_vars[k2 + 1]) :
        ~has_bit(state.dv_map[v + 1], v)

\* C10: an Assert step that passed the hypothesis checks gives
\* ProofDvViolation exactly when some mandatory DV pair of the cited frame
\* has substituted variables v1, v2 with v2 not in dv_map[v1]; a variable
\* shared by both substitutions and not distinct from itself is such a case.
C10_DvCheck ==
    AssertPassedHyps =>
        LET dvs == Frames[last.frame].mandatory_dv
        IN  /\ (last.err = Diag("ProofDvViolation")) <=>
                  (\E n \in 1..Len(dvs) : DvPairBroken(dvs[n][1], dvs[n][2]))
            /\ (\E n \in 1..Len(dvs) : SharedVariable(dvs[n][1], dvs[n][2])) =>
                  last.err = Diag("ProofDvViolation")

\* wd applied to two expressions that share a variable: ProofDvViolation
C10_Witness ==
    /\ AssertPassedHyps
    /\ last.frame = "wd"
    /\ last.err = Diag("ProofDvViolation")
    /\ SharedVariable(0, 1)

(***************************************************************************)
(* prepare_step's checks of the cited frame's validity.  A prepare_step is *)
(* the last step when last.op = "prepare", or when last.op = "execute"     *)
(* carries a label: then the prepare_step of an uncompressed proof's token *)
(* gave no diagnostic and its execute_step followed.                       *)
(***************************************************************************)
PreparedFrame ==
    /\ last.op \in {"prepare", "execute"}
    /\ HasFrame(last.label)

PrepareErr == IF last.op = "prepare" THEN last.err ELSE None

CitedValid == Frames[last.label].valid

\* a comes strictly before b in segment order
StrictlyBefore(a, b) ==
    \/ SegmentRank(a.segment_id) < SegmentRank(b.segment_id)
    \/ a.segment_id = b.segment_id /\ a.index < b.index

\* C14 (as amended): prepare_step(label), when a frame exists for the
\* label, returns StepUsedBeforeDefinition exactly when the cited frame's
\* validity start is not strictly before the current statement's position
\* in segment order.
C14_UsedBeforeDefinition ==
    PreparedFrame =>
        (PrepareErr = DiagL("StepUsedBeforeDefinition", last.label)
            <=> ~StrictlyBefore(CitedValid.start, last.addr))

\* th1 cites itself: the frame's start is the current position
C14_Witness ==
    /\ PreparedFrame
    /\ last.label = "th1"
    /\ last.addr = Address("main", 11)
    /\ last.err = DiagL("StepUsedBeforeDefinition", "th1")

\* C14 as stated: StepUsedBeforeDefinition exactly when the cited frame's
\* validity start is not strictly after the current statement's position.
C14_AsStated ==
    PreparedFrame =>
        (PrepareErr = DiagL("StepUsedBeforeDefinition", last.label)
            <=> ~StrictlyBefore(last.addr, CitedValid.start))

\* C15: prepare_step(label), when the frame exists and the
\* before-definition check passes, returns StepUsedAfterScope exactly when
\* the frame's validity has a definite end and the current statement's
\* position is in another segment than the frame's start or has index >= end;
\* a frame with no definite end never gives StepUsedAfterScope.
C15_UsedAfterScope ==
    PreparedFrame =>
        /\ PrepareErr # DiagL("StepUsedBeforeDefinition", last.label) =>
              (PrepareErr = DiagL("StepUsedAfterScope", last.label)
                  <=> /\ CitedValid.end # NO_STATEMENT
                      /\ \/ last.addr.segment_id # CitedValid.start.segment_id
                         \/ last.addr.index >= CitedValid.end)
        /\ CitedValid.end = NO_STATEMENT =>
              PrepareErr # DiagL("StepUsedAfterScope", last.label)

\* th2, in segment ext, cites e1, whose validity ends in segment main at an
\* index beyond th2's own
C15_Witness ==
    /\ PreparedFrame
    /\ last.label = "e1"
    /\ last.addr = Address("ext", 4)
    /\ last.err = DiagL("StepUsedAfterScope", "e1")

(***************************************************************************)
(* The digit stream of a compressed proof.  A step of the digit loop that  *)
(* reads a recognised character leaves pc = "digits" with cpos advanced,   *)
(* or leaves the proof; last' records the character.                       *)
(***************************************************************************)
FinalDigits == ch_A..ch_T
ContinuationDigits == ch_U..ch_Y

\* the step reads a character of the set chars in the digit stream
ReadsIn(chars) ==
    /\ pc = "digits"
    /\ last'.ch \in chars
    /\ ~last'.skipped
    /\ cpos' = cpos + 1 \/ pc' # "digits"

Reads(ch) == ReadsIn({ch})

\* the last recognised character was a final digit whose step succeeded
LastExecuted ==
    /\ last.op = "execute"
    /\ last.ch \in FinalDigits
    /\ last.err = None

C16_CanSave == pc = "digits" /\ can_save => LastExecuted

C16_Z ==
    Reads(ch_Z) =>
        /\ last'.op = "save"
        /\ ~can_save =>
              /\ last'.err = Diag("ProofInvalidSave")
              /\ pc' = "segment"
              /\ state' = state
        /\ ~LastExecuted =>
              /\ last'.err = Diag("ProofInvalidSave")
              /\ state' = state
        /\ can_save =>
              /\ last'.err = None
              /\ state' = save_step(state)
              /\ ~can_save'

\* C16: a Z in the digit stream gives ProofInvalidSave unless can_save is
\* true, and can_save is true only when the most recent recognised digit
\* character was a final digit A..T whose execute_step succeeded; so a Z
\* that comes first, right after another Z or right after a continuation
\* digit gives ProofInvalidSave and save_step is not run.
C16_SaveProtocol == []C16_CanSave /\ [][C16_Z]_allvars

\* a Z right after a continuation digit was refused
C16_Witness ==
    /\ last.op = "save"
    /\ last.ch = ch_Z
    /\ last.pending # << >>
    /\ last.err = Diag("ProofInvalidSave")

\* C17: save_step is only ever run right after an execute_step of an Assert
\* prepared step, never when the most recently executed step was a Hyp step.
C17_SaveAfterAssert ==
    [][(Reads(ch_Z) /\ last'.err = None)
          => (last.op = "execute" /\ last.frame # "")]_allvars

\* the value of the continuation digits c1..cn
RECURSIVE Accumulated(_)
Accumulated(digits) ==
    IF digits = << >> THEN 0
    ELSE Accumulated(SubSeq(digits, 1, Len(digits) - 1)) * 5
            + 1 + (digits[Len(digits)] - ch_U)

\* the index the digit string c1..cn f stands for
Decoded(digits, f) == Accumulated(digits) * 20 + (f - ch_A)

\* the digit strings A, T, UA, YT, UUA and their indexes
DecodedExamples ==
    { << << >>, ch_A, 0 >>, << << >>, ch_T, 19 >>, << <<ch_U>>, ch_A, 20 >>,
      << <<ch_Y>>, ch_T, 119 >>, << <<ch_U, ch_U>>, ch_A, 120 >> }

DigitExecuted == last.op = "execute" /\ last.ch \in FinalDigits

C18_Index ==
    /\ DigitExecuted =>
          /\ last.index = Decoded(last.pending, last.ch)
          /\ \A e \in DecodedExamples :
                (last.pending = e[1] /\ last.ch = e[2]) => last.index = e[3]
    /\ pc = "digits" =>
          /\ k = Accumulated(Pending)
          /\ (last.op # "digit" => k = 0)

C18_Final ==
    ReadsIn(FinalDigits) =>
        /\ last'.op = "execute"
        /\ last'.pending = Pending
        /\ last'.index = Decoded(Pending, last'.ch)
        /\ state' = execute_step(state, last'.index).state
        /\ last'.err = execute_step(state, last'.index).err
        /\ pc' = "digits" <=> last'.err = None

\* C18: a digit string of continuation characters c1..cn in U..Y and one
\* final character f in A..T makes the decoder call execute_step once, with
\* the index got from k = 0, k := k*5 + 1 + (ci - 'U') for each ci, and
\* k*20 + (f - 'A'); k is 0 again before the next digit string; A is 0,
\* T is 19, UA is 20, YT is 119 and UUA is 120.
C18_VarintDecoding == []C18_Index /\ [][C18_Final]_allvars

\* UUA was decoded
C18_Witness ==
    /\ DigitExecuted
    /\ last.pending = <<ch_U, ch_U>>
    /\ last.ch = ch_A
    /\ last.index = 120

\* acc * 20 + 19 is at most u32::MAX = 4294967295, that is
\* acc <= (4294967295 - 19) \div 20
FitsU32(acc) == acc <= 214748364 - 1

\* acc >= u32::MAX \div 20 - 1
AtLimit(acc) == acc >= 214748364 - 1

C19_Fits == pc = "digits" => (k >= 0 /\ FitsU32(k))

C19_Continuation ==
    ReadsIn(ContinuationDigits) =>
        /\ last'.pending = Append(Pending, last'.ch)
        /\ IF AtLimit(Accumulated(last'.pending))
           THEN /\ last'.err = Diag("ProofMalformedVarint")
                /\ pc' = "segment"
                /\ state' = state
           ELSE /\ last'.err = None
                /\ pc' = "digits"
                /\ k' = Accumulated(last'.pending)

\* the digit loop finds no further token
StreamEnds ==
    /\ pc = "digits"
    /\ pc' # "digits"
    /\ last'.op \in {"digits_end", "finalize"}

C19_StreamEnd ==
    (StreamEnds /\ Pending # << >>) =>
        /\ last'.err = Diag("ProofMalformedVarint")
        /\ state' = state

\* C19: a continuation digit that makes the accumulator k >= u32::MAX/20 - 1
\* gives ProofMalformedVarint, so that in every state of the decoder
\* k*20 + 19, the most a final digit could pass to execute_step, fits in an
\* unsigned 32-bit integer; and a digit stream that ends after continuation
\* digits with no final digit gives ProofMalformedVarint.
C19_VarintBound == []C19_Fits /\ [][C19_Continuation /\ C19_StreamEnd]_allvars

\* the twelfth Y was refused
C19_Witness ==
    /\ last.op = "digit"
    /\ last.pending = LongDigits
    /\ last.err = Diag("ProofMalformedVarint")

\* the step leaves the proof with the diagnostic err as the statement's, the
\* VerifyState as it was
LeavesWith(err) ==
    /\ last'.err = err
    /\ pc' = "segment"
    /\ state' = state
    /\ last'.addr \in DOMAIN diagnostics'
    /\ diagnostics'[last'.addr] = err

C20_Digits ==
    Reads(ch_Question) =>
        /\ last'.op = "digit"
        /\ IF k > 0 THEN LeavesWith(Diag("ProofMalformedVarint"))
                    ELSE LeavesWith(Diag("ProofIncomplete"))

C20_Labels ==
    (pc = "labels" /\ last'.op = "label") => LeavesWith(Diag("ProofIncomplete"))

C20_Left ==
    InProof => /\ last.op # "label"
               /\ last.ch = ch_Question => last.skipped

\* C20: in a compressed proof a ? in the digit stream gives
\* ProofMalformedVarint if continuation digits are pending (k > 0) and
\* ProofIncomplete otherwise; in an uncompressed proof a ? token gives
\* ProofIncomplete; in both cases nothing after the ? is processed and
\* finalize_step is not run.
C20_Incomplete == []C20_Left /\ [][C20_Digits /\ C20_Labels]_allvars

\* a ? came after a continuation digit
C20_Witness ==
    /\ last.op = "digit"
    /\ last.ch = ch_Question
    /\ ~last.skipped
    /\ last.pending # << >>
    /\ last.err = Diag("ProofMalformedVarint")
    /\ pc = "segment"

(***************************************************************************)
(* finalize_step.  After the step last.op = "finalize" and state is the    *)
(* VerifyState it looked at, temp_buffer apart.                            *)
(***************************************************************************)
\* the bytes of a statement's own expression: the target tail of its frame
\* with each Var(ix) replaced by the token mandatory_vars[ix]
RECURSIVE OwnBytes(_, _)
OwnBytes(tail, mvars) ==
    IF tail = << >> THEN << >>
    ELSE (IF Head(tail).var THEN mvars[Head(tail).ix + 1] \o << " " >>
                            ELSE Head(tail).string)
            \o OwnBytes(Tail(tail), mvars)

\* the bytes of stack slot n (one-based)
SlotBytes(st, n) ==
    [b \in 1..(st.stack[n].expr.end - st.stack[n].expr.start) |->
        st.stack_buffer[st.stack[n].expr.start + b]]

Finalized == last.op = "finalize"

C21_Decision ==
    Finalized =>
        LET depth == Len(state.stack)
            cur   == Frames[state.cur_frame]
        IN  /\ last.err = Diag("ProofNoSteps") <=> depth = 0
            /\ last.err = Diag("ProofExcessEnd") <=> depth > 1
            /\ depth = 1 =>
                  last.err =
                     IF state.stack[1].code # cur.target.typecode
                     THEN Diag("ProofWrongTypeEnd")
                     ELSE IF SlotBytes(state, 1)
                                # OwnBytes(cur.target.tail, cur.mandatory_vars)
                     THEN Diag("ProofWrongExprEnd")
                     ELSE None

\* a $p statement with a frame has no diagnostic only after finalize_step
\* gave none
C21_Accepted ==
    \A a \in checked :
        LET stmt == Statements(a.segment_id)[a.index + 1]
        IN  (/\ stmt.stype = "Provable"
             /\ HasFrame(stmt.label)
             /\ a \notin DOMAIN diagnostics
             /\ last.addr = a
             /\ ~InProof)
            => /\ Finalized
               /\ last.err = None
               /\ Len(state.stack) = 1
               /\ state.stack[1].code = Frames[stmt.label].target.typecode
               /\ SlotBytes(state, 1) = OwnBytes(Frames[stmt.label].target.tail,
                                                 Frames[stmt.label].mandatory_vars)

\* C21: finalize_step gives ProofNoSteps iff the stack is empty,
\* ProofExcessEnd iff it holds more than one slot, otherwise
\* ProofWrongTypeEnd if the slot's typecode is not the frame's target
\* typecode, otherwise ProofWrongExprEnd if the slot's bytes are not the
\* target tail with each Var(ix) replaced by mandatory_vars[ix], otherwise
\* nothing; a proof is accepted only with all steps done and one slot left
\* that is the statement's own typecode and expression.
C21_Finalize == C21_Decision /\ C21_Accepted

\* one slot of the right typecode and other bytes was left
C21_Witness ==
    /\ Finalized
    /\ Len(state.stack) = 1
    /\ last.err = Diag("ProofWrongExprEnd")

(***************************************************************************)
(* execute_step of a prepared Assert.  The step is taken by a final digit  *)
(* of a compressed proof or by a token of an uncompressed one, whose       *)
(* prepare_step leaves stack and stack_buffer alone.                       *)
(***************************************************************************)
Executes ==
    /\ \/ ReadsIn(FinalDigits)
       \/ pc = "labels" /\ (i' = i + 1 \/ pc' = "segment")
    /\ last'.op = "execute"

ExecutesAssert == Executes /\ last'.frame # ""

\* the position (zero-based) of the floating hypothesis of frame for the
\* mandatory variable v
FloatOf(frame, v) ==
    CHOOSE ix \in 0..(Len(frame.hypotheses) - 1) :
        /\ frame.hypotheses[ix + 1].is_float
        /\ frame.hypotheses[ix + 1].variable_index = v

\* tail with every Var(v) replaced by the bytes of the slot of st supplied
\* for the mandatory variable v, the hypotheses lying from sbase up
RECURSIVE Instance(_, _, _, _)
Instance(tail, frame, st, sbase) ==
    IF tail = << >> THEN << >>
    ELSE (IF Head(tail).var
          THEN SlotBytes(st, sbase + FloatOf(frame, Head(tail).ix) + 1)
          ELSE Head(tail).string)
            \o Instance(Tail(tail), frame, st, sbase)

C22_Step ==
    ExecutesAssert =>
        LET frame == Frames[last'.frame]
            h     == Len(frame.hypotheses)
            depth == Len(state.stack)
        IN  /\ last'.err = Diag("ProofUnderflow") <=> depth < h
            /\ last'.err = None =>
                  /\ Len(state'.stack) = depth - h + 1
                  /\ \A n \in 1..(depth - h) :
                        /\ state'.stack[n] = state.stack[n]
                        /\ SlotBytes(state', n) = SlotBytes(state, n)
                  /\ state'.stack[depth - h + 1].code = frame.target.typecode
                  /\ SlotBytes(state', depth - h + 1)
                        = Instance(frame.target.tail, frame, state, depth - h)

\* C22: executing a prepared Assert whose frame has h hypotheses gives
\* ProofUnderflow when the stack holds fewer than h slots; when the step
\* succeeds the depth becomes old depth - h + 1, the slots below old depth - h
\* are unchanged, and the new top has the frame's target typecode and the
\* target tail with every Var(k) replaced by the bytes of the stack
\* expression supplied for the mandatory variable k.
C22_AssertStack == [][C22_Step]_allvars

\* wd was applied to two slots with a slot beneath them
C22_Witness ==
    /\ last.op = "execute"
    /\ last.frame = "wd"
    /\ last.err = None
    /\ Len(state.stack) = 2
    /\ state.stack[2].code = "wff"
    /\ Len(SlotBytes(state, 2)) = 6

\* the positions (zero-based) of the hypotheses of frame that the slots of
\* st from sbase up do not match: a floating one by its typecode, an
\* essential one by its typecode or by its bytes under the substitution of
\* all the floating hypotheses
FloatsWrong(frame, st, sbase) ==
    {ix \in 0..(Len(frame.hypotheses) - 1) :
        /\ frame.hypotheses[ix + 1].is_float
        /\ st.stack[sbase + ix + 1].code # frame.hypotheses[ix + 1].expr.typecode}

EssenWrongType(frame, st, sbase, ix) ==
    st.stack[sbase + ix + 1].code # frame.hypotheses[ix + 1].expr.typecode

EssenWrong(frame, st, sbase) ==
    {ix \in 0..(Len(frame.hypotheses) - 1) :
        /\ ~frame.hypotheses[ix + 1].is_float
        /\ \/ EssenWrongType(frame, st, sbase, ix)
           \/ SlotBytes(st, sbase + ix + 1)
                 # Instance(frame.hypotheses[ix + 1].expr.tail, frame, st, sbase)}

Lowest(set) == CHOOSE n \in set : \A other \in set : n <= other

HypDiags == {Diag("StepFloatWrongType"), Diag("StepEssenWrongType"),
             Diag("StepEssenWrong")}

C23_Step ==
    (ExecutesAssert /\ last'.err # Diag("ProofUnderflow")) =>
        LET frame == Frames[last'.frame]
            sbase == Len(state.stack) - Len(frame.hypotheses)
            fw    == FloatsWrong(frame, state, sbase)
            ew    == EssenWrong(frame, state, sbase)
        IN  /\ fw # {} => last'.err = Diag("StepFloatWrongType")
            /\ fw = {} =>
                  /\ \A v \in 0..(Len(frame.mandatory_vars) - 1) :
                        LET slot == state.stack[sbase + FloatOf(frame, v) + 1]
                        IN  /\ state'.subst_vars[v + 1] = slot.vars
                            /\ state'.subst_exprs[v + 1] = slot.expr
                  /\ ew # {} =>
                        last'.err = IF EssenWrongType(frame, state, sbase, Lowest(ew))
                                    THEN Diag("StepEssenWrongType")
                                    ELSE Diag("StepEssenWrong")
                  /\ ew = {} => last'.err \notin HypDiags

\* C23: in an Assert step all floating hypotheses are type-checked and the
\* whole substitution is recorded before any essential hypothesis is
\* examined, whatever their order in the frame: a floating typecode mismatch
\* gives StepFloatWrongType even when an essential hypothesis at a lower
\* position mismatches too, and each essential hypothesis is compared
\* (typecode, else StepEssenWrongType; bytes, else StepEssenWrong) with its
\* expression under the complete substitution.
C23_HypothesisOrder == [][C23_Step]_allvars

\* a2 was applied to slots of which the second, for the essential h1, and
\* the third, for the floating wr, both have the wrong typecode
C23_Witness ==
    /\ last.op = "execute"
    /\ last.frame = "a2"
    /\ last.err = Diag("StepFloatWrongType")
    /\ Len(state.stack) >= 3
    /\ LET sbase == Len(state.stack) - 3
       IN  /\ state.stack[sbase + 2].code # "|-"
           /\ state.stack[sbase + 3].code # "wff"

(***************************************************************************)
(* The prepared table of a proof.                                          *)
(***************************************************************************)
\* what the prepared step n (one-based) of st stands for
Meaning(st, n) ==
    LET step == st.prepared[n]
    IN  [kind |-> step.kind, frame |-> step.frame, code |-> step.code,
         bytes |-> [b \in 1..(step.expr.end - step.expr.start) |->
                       st.prep_buffer[step.expr.start + b]]]

\* what a prepared step for the label stands for: the assertion, or the
\* hypothesis with its typecode and bytes
MeaningOf(label) ==
    IF Frames[label].stype \in {"Axiom", "Provable"}
    THEN [kind |-> "Assert", frame |-> label, code |-> "", bytes |-> << >>]
    ELSE [kind |-> "Hyp", frame |-> "", code |-> Frames[label].target.typecode,
          bytes |-> Frames[label].stub_expr]

\* the label may not be cited by the statement at addr
Uncitable(label, addr) ==
    \/ ~HasFrame(label)
    \/ ~StrictlyBefore(Frames[label].valid.start, addr)
    \/ /\ Frames[label].valid.end # NO_STATEMENT
       /\ \/ addr.segment_id # Frames[label].valid.start.segment_id
          \/ addr.index >= Frames[label].valid.end

\* in the roster phase no step has been executed, and prepared holds the
\* hypotheses and the i - 1 labels read
C24_Roster ==
    pc = "roster" =>
        LET hyps == Frames[state.cur_frame].hypotheses
        IN  /\ state.stack = << >>
            /\ state.stack_buffer = << >>
            /\ Len(state.prepared) = Len(hyps) + (i - 1)
            /\ \A n \in 1..Len(hyps) : Meaning(state, n) = MeaningOf(hyps[n].label)

C24_Token ==
    (pc = "roster" /\ last'.op = "prepare") =>
        IF Uncitable(last'.label, CurAddress)
        THEN /\ last'.err # None
             /\ pc' = "segment"
             /\ diagnostics'[CurAddress] = last'.err
             /\ state'.stack = << >>
        ELSE /\ last'.err = None
             /\ pc' = "roster"
             /\ Len(state'.prepared) = Len(state.prepared) + 1
             /\ Meaning(state', Len(state'.prepared)) = MeaningOf(last'.label)

C24_Ends ==
    (pc = "roster" /\ pc' # "roster" /\ last'.op # "prepare") =>
        \/ /\ pc' = "digits"
           /\ state' = state
        \/ /\ pc' = "segment"
           /\ last'.err = Diag("ProofUnterminatedRoster")
           /\ state' = state

C24_AppendOnly ==
    (pc \in {"roster", "digits"} /\ pc' \in {"roster", "digits"}) =>
        /\ Len(state'.prepared) >= Len(state.prepared)
        /\ \A n \in 1..Len(state.prepared) : Meaning(state', n) = Meaning(state, n)
        /\ (Reads(ch_Z) /\ last'.err = None) =>
              Len(state'.prepared) = Len(state.prepared) + 1

\* C24: in a compressed proof the prepared table is filled, before any
\* execute_step runs, with the current frame's h hypotheses at indices
\* 0..h-1 in frame order followed by the labels between ( and ) in token
\* order; prepared entries are append-only; a roster label that fails
\* prepare_step returns its diagnostic though no digit refers to it; and
\* tokens that end before ) give ProofUnterminatedRoster with no step
\* executed.
C24_RosterPhase ==
    []C24_Roster /\ [][C24_Token /\ C24_Ends /\ C24_AppendOnly]_allvars

\* the roster of th1, with two hypotheses, has been closed after two labels
\* of which the first is a hypothesis and the second an assertion
C24_Witness ==
    /\ pc = "digits"
    /\ last.op = "roster_end"
    /\ state.cur_frame = "th1"
    /\ Len(state.prepared) = 4
    /\ Meaning(state, 1) = MeaningOf("wp")
    /\ Meaning(state, 2) = MeaningOf("wq")
    /\ Meaning(state, 3).kind = "Hyp"
    /\ Meaning(state, 4).kind = "Assert"
    /\ state.stack = << >>

(***************************************************************************)
(* save_step and the execute_step of what it saved.                        *)
(***************************************************************************)
\* the step runs save_step
Saves == Reads(ch_Z) /\ last'.err = None

\* the step executes a prepared Hyp step with no diagnostic
ExecutesHyp ==
    /\ Executes
    /\ last'.err = None
    /\ last'.index < Len(state'.prepared)
    /\ state'.prepared[last'.index + 1].kind = "Hyp"

\* save_step: stack and stack_buffer are left alone, and the one prepared
\* step appended is the top slot's typecode, variables and bytes
C25_Save ==
    Saves =>
        LET depth == Len(state.stack)
            n     == Len(state.prepared) + 1
        IN  /\ state'.stack = state.stack
            /\ state'.stack_buffer = state.stack_buffer
            /\ Len(state'.prepared) = n
            /\ Meaning(state', n).kind = "Hyp"
            /\ Meaning(state', n).code = state.stack[depth].code
            /\ Meaning(state', n).bytes = SlotBytes(state, depth)
            /\ state'.prepared[n].vars = state.stack[depth].vars

\* a prepared step stays what it was as long as the proof goes on
C25_Kept ==
    (InProof /\ InProof') =>
        \A n \in 1..Len(state.prepared) :
            /\ Len(state'.prepared) >= n
            /\ Meaning(state', n) = Meaning(state, n)
            /\ state'.prepared[n].vars = state.prepared[n].vars

\* execute_step of a Hyp step pushes its typecode, variables and bytes
C25_Execute ==
    ExecutesHyp =>
        LET depth == Len(state.stack)
            n     == last'.index + 1
        IN  /\ Len(state'.stack) = depth + 1
            /\ state'.stack[depth + 1].code = Meaning(state', n).code
            /\ state'.stack[depth + 1].vars = state'.prepared[n].vars
            /\ SlotBytes(state', depth + 1) = Meaning(state', n).bytes

Tiles(stack, stack_buffer) ==
    /\ stack = << >> => stack_buffer = << >>
    /\ stack # << >> =>
          /\ stack[1].expr.start = 0
          /\ stack[Len(stack)].expr.end = Len(stack_buffer)
    /\ \A j \in 1..Len(stack) : stack[j].expr.start <= stack[j].expr.end
    /\ \A j \in 2..Len(stack) : stack[j].expr.start = stack[j - 1].expr.end

C30_Tiles == state # NoState => Tiles(state.stack, state.stack_buffer)

\* an Assert step with no diagnostic leaves the slots below its hypotheses,
\* and their bytes, as they were
C30_AssertKeeps ==
    ExecutesAssert /\ last'.err = None =>
        LET sbase == Len(state.stack) - Len(Frames[last'.frame].hypotheses)
        IN  \A j \in 1..sbase :
               /\ state'.stack[j] = state.stack[j]
               /\ Slice(state'.stack_buffer, state.stack[j].expr)
                     = Slice(state.stack_buffer, state.stack[j].expr)

\* C30: after any sequence of successful execute_step and save_step calls
\* the expression ranges of the stack slots tile stack_buffer: slot 0 starts
\* at 0, each slot starts where the slot below it ends, the top slot ends at
\* stack_buffer.len(), and stack_buffer is empty when the stack is; so no two
\* slots overlap and an Assert step never truncates bytes of a slot that
\* stays on the stack.
C30_StackBufferLayout == []C30_Tiles /\ [][C30_AssertKeeps]_allvars

\* an Assert step with hypotheses left its slot on a slot that stayed, and
\* the buffer had held more bytes before it
C30_Witness ==
    /\ last.op = "execute"
    /\ last.frame # ""
    /\ last.err = None
    /\ Frames[last.frame].hypotheses # << >>
    /\ Len(state.stack) = 2
    /\ state.stack[1].expr.end > 0
    /\ state.stack[2].expr.start = state.stack[1].expr.end
    /\ Len(state.stack_buffer) = state.stack[2].expr.end


(***************************************************************************)
(* The frame of unify                                                      *)
(***************************************************************************)
Unified == flast.op = "unify"

\* the labels of the variable nodes of a formula
VariableLabels(f) == {f.tree[n].label : n \in f.variables}

\* the bindings the call was given are there after it, with the same formula
C31_Kept ==
    Unified => \A l \in DOMAIN flast.pre : IsBound(subs, l) /\ subs[l] = flast.pre[l]

\* a binding the call added is for a variable of the pattern
C31_Added ==
    Unified => (DOMAIN subs) \ (DOMAIN flast.pre) \subseteq VariableLabels(fpat)

\* the two roots are the same node with two children at least, and the first
\* child of the pattern is a variable with no binding on entry: whatever the
\* call returns, the variable is bound to the first child of self
C31_NotRolledBack ==
    /\ Unified
    /\ ~is_variable(fpat, fpat.root)
    /\ UnifySameNode(fself, fself.root, fpat, fpat.root)
    /\ Len(fself.tree[fself.root].children) >= 1
    /\ Len(fpat.tree[fpat.root].children) >= 1
    /\ is_variable(fpat, fpat.tree[fpat.root].children[1])
    /\ ~IsBound(flast.pre, fpat.tree[fpat.tree[fpat.root].children[1]].label)
    => LET v == fpat.tree[fpat.tree[fpat.root].children[1]].label
       IN  /\ IsBound(subs, v)
           /\ subs[v] = sub_formula(fself, fself.tree[fself.root].children[1])

\* C31: unify never overwrites or removes a binding: a label bound before the
\* call is bound to the same formula after it, whether it returns Ok or
\* UnificationFailed; it only adds bindings for pattern variables that had
\* none, and the bindings added before a failure is detected are not rolled
\* back.
C31_UnifyFrame == C31_Kept /\ C31_Added /\ C31_NotRolledBack

\* a call that was given a binding failed after it had added another
C31_Witness ==
    /\ Unified
    /\ ~flast.ok
    /\ flast.pre # NoSubstitutions
    /\ DOMAIN subs # DOMAIN flast.pre


(***************************************************************************)
(* StepOutOfRange                                                          *)
(***************************************************************************)
\* in an uncompressed proof the step counter is the index of the token to
\* read, and as many steps are prepared
C32_Count ==
    pc = "labels" => count = i /\ Len(state.prepared) = count

\* a label token of an uncompressed proof that prepare_step accepts is
\* prepared at the index of the token and executed at that index, the
\* prepared steps being one more than the counter; the step is in range
C32_Label ==
    (pc = "labels" /\ last'.op = "execute") =>
        /\ last'.index = i
        /\ last'.index = count
        /\ Len(state'.prepared) = count + 1
        /\ SubSeq(state'.prepared, 1, count) = state.prepared
        /\ last'.err # Diag("StepOutOfRange")

\* StepOutOfRange comes from a final digit of a compressed proof whose digit
\* string stands for an index that is no index of a prepared step
C32_Digit ==
    (InProof /\ last'.err = Diag("StepOutOfRange")) =>
        /\ ReadsIn(FinalDigits)
        /\ last'.op = "execute"
        /\ Decoded(last'.pending, last'.ch) >= Len(state.prepared)

\* C32: in an uncompressed proof the i-th label token (from 0) is prepared at
\* index i and executed at index i at once, so prepared.len() = count + 1 at
\* every execute_step and StepOutOfRange is never returned for an
\* uncompressed proof; StepOutOfRange only arises from a compressed digit
\* whose decoded index is >= prepared.len().
C32_StepOutOfRange == []C32_Count /\ [][C32_Label /\ C32_Digit]_allvars

\* the third label of an uncompressed proof has been executed, at index 2
C32_Witness ==
    /\ pc = "labels"
    /\ last.op = "execute"
    /\ last.index = 2
    /\ count = 3
    /\ Len(state.prepared) = 3


(***************************************************************************)
(* save_step and the stack                                                 *)
(***************************************************************************)
C33_CanSave == (pc = "digits" /\ can_save) => Len(state.stack) >= 1

\* a Z that is accepted finds a slot to save
C33_Save == Saves => Len(state.stack) >= 1

\* C33: save_step is never reached with an empty stack: in every state of the
\* decoder can_save implies that the stack holds a slot at least, so the
\* expect of save_step cannot fail.
C33_SaveNeverEmpty == []C33_CanSave /\ [][C33_Save]_allvars

\* can_save is set after the first step of a compressed proof, an Assert
\* step, and the stack holds the one slot a Z would save
C33_Witness ==
    /\ pc = "digits"
    /\ can_save
    /\ last.op = "execute"
    /\ last.frame # ""
    /\ Len(state.stack) = 1


(***************************************************************************)
(* The decoder across tokens and characters it has no branch for           *)
(***************************************************************************)
\* the step ends a token of the digit stream
EndsToken == pc = "digits" /\ pc' = "digits" /\ i' = i + 1

\* the step reads a character the digit loop has no branch for
Skips == pc = "digits" /\ cpos' = cpos + 1 /\ last'.skipped

C34_TokenEnd ==
    EndsToken =>
        /\ k' = k
        /\ can_save' = can_save
        /\ state' = state
        /\ diagnostics' = diagnostics

\* a final digit that starts a token ends the digit string the tokens
\* before it began, and a Z that starts a token saves the step the token
\* before it executed
C34_Split ==
    /\ (ReadsIn(FinalDigits) /\ cpos = 0) =>
          /\ last'.index = Decoded(Pending, last'.ch)
          /\ last'.index = k * 20 + (last'.ch - ch_A)
    /\ (Reads(ch_Z) /\ cpos = 0 /\ LastExecuted) =>
          /\ last'.err = None
          /\ Len(state'.prepared) = Len(state.prepared) + 1

C34_Skipped ==
    Skips =>
        /\ pc' = "digits"
        /\ diagnostics' = diagnostics
        /\ k' = k
        /\ can_save' = can_save
        /\ state' = state
        /\ last'.err = None

\* a step of the digit loop ends a token, reads a character of A..Z or ?,
\* or skips one, unless it finds the proof at its end
C34_Known ==
    (pc = "digits" /\ ~EndsToken /\ last'.op \notin {"finalize", "digits_end"}) =>
        \/ Skips
        \/ ReadsIn(ch_A..ch_Z \cup {ch_Question})

\* C34: the varint accumulator k and the flag can_save persist across the
\* boundaries of proof tokens (a digit string may be split over several
\* tokens), and a character of the digit stream outside A..Z and ? is
\* skipped: no diagnostic, and k, can_save, the stack and the prepared steps
\* are unchanged.
C34_DecoderState ==
    [][C34_TokenEnd /\ C34_Split /\ C34_Skipped /\ C34_Known]_allvars

\* a token ended after a continuation digit and a character that was
\* skipped: the next token starts with the accumulator the digit left
C34_Witness ==
    /\ pc = "digits"
    /\ cpos = 0
    /\ k > 0
    /\ last.op = "digit"
    /\ last.skipped
    /\ ~can_save

(***************************************************************************)
(* Bitset on its own: two Bitsets a and b, built by set_bit and a |= &b,   *)
(* and the iteration of a.                                                 *)
(***************************************************************************)
\* the largest index passed to set_bit
MaxBit == 3

BInit ==
    /\ FIdle
    /\ VIdle
    /\ SIdle
    /\ XIdle
    /\ ba = BitsetNew
    /\ bb = BitsetNew
    /\ blast = [op |-> "new", a |-> BitsetNew, b |-> BitsetNew]
    /\ bout = << >>

BitsetOp(op) == [op |-> op, a |-> ba, b |-> bb]

\* a.set_bit(bit)
BSetA(bit) ==
    /\ ba' = set_bit(ba, bit)
    /\ blast' = BitsetOp("set_a")
    /\ UNCHANGED <<bb, bout>>
    /\ UNCHANGED <<fvars, vvars, rvars, svars, xvars>>

\* b.set_bit(bit)
BSetB(bit) ==
    /\ bb' = set_bit(bb, bit)
    /\ blast' = BitsetOp("set_b")
    /\ UNCHANGED <<ba, bout>>
    /\ UNCHANGED <<fvars, vvars, rvars, svars, xvars>>

\* a |= &b
BUnion ==
    /\ ba' = bitor_assign(ba, bb)
    /\ blast' = BitsetOp("union")
    /\ UNCHANGED <<bb, bout>>
    /\ UNCHANGED <<fvars, vvars, rvars, svars, xvars>>

\* for i in &a
BIterate ==
    /\ bout' = into_iter(ba)
    /\ blast' = BitsetOp("iter")
    /\ UNCHANGED <<ba, bb>>
    /\ UNCHANGED <<fvars, vvars, rvars, svars, xvars>>

BNext ==
    \/ \E bit \in 0..MaxBit : BSetA(bit)
    \/ \E bit \in 0..MaxBit : BSetB(bit)
    \/ BUnion
    \/ BIterate

SpecBitset == BInit /\ [][BNext]_allvars

\* the indices a Bitset of this model can hold
BitIndices == 0..(MaxBit + bits_per_word)

\* C11: after a |= &b, a holds i exactly when a held i before or b holds i,
\* for every index i and whatever the tails of a and b were; b is as it was.
C11_BitsetUnion ==
    blast.op = "union" =>
        /\ \A n \in BitIndices :
              has_bit(ba, n) <=> (has_bit(blast.a, n) \/ has_bit(blast.b, n))
        /\ bb = blast.b

\* a without a tail united with a b whose tail has two words at least, and
\* a with the longer tail united with a b that has a tail
C11_Witness ==
    /\ blast.op = "union"
    /\ blast.a.tail = << >>
    /\ blast.a.head # 0
    /\ Len(blast.b.tail) >= 2
    /\ blast.b.tail[1] = 0

MathString(label) ==
    IF label = "a" THEN << "wff", "(", "ph", "->", "ps", ")" >>
    ELSE << "wff", "ph" >>

\* Nameset::lookup_symbol(token).stype
SymbolType(symbol) == IF symbol \in {"ph", "ps"} THEN "Variable" ELSE "Constant"

\* Nameset::atom_name(symbol), as bytes
AtomName(symbol) ==
    CASE symbol = "(" -> << 40 >>
      [] symbol = ")" -> << 41 >>
      [] symbol = "->" -> << 45, 62 >>
      [] symbol = "ph" -> << 112, 104 >>
      [] symbol = "ps" -> << 112, 115 >>
      [] symbol = "wff" -> << 119, 102, 102 >>

\* Flatten::step_into: the stack with the entry of node_id pushed
step_into(f, stack, node_id) ==
    LET math_iter == Tail(MathString(f.tree[node_id].label))
    IN  Append(stack,
               [node_id |-> node_id,             \* the node the entry is for
                math_iter |-> math_iter,
                some |-> has_children(f.tree, node_id),
                sibling_iter |-> children_iter(f.tree, node_id)])

\* Flatten::next called until it returns None: the symbols it yields, and
\* whether it panics ("Empty formula!") on the way
RECURSIVE FlattenFrom(_, _)
FlattenFrom(f, stack) ==
    IF stack = << >> THEN [symbols |-> << >>, panic |-> FALSE]
    ELSE
    LET stack_end == Len(stack)
        top == stack[stack_end]
    IN  IF top.math_iter # << >>
        THEN LET symbol == Head(top.math_iter)
                 stack1 == [stack EXCEPT ![stack_end].math_iter = Tail(@)]
             IN  IF SymbolType(symbol) = "Constant" \/ ~top.some
                 THEN LET rest == FlattenFrom(f, stack1)
                      IN  [symbols |-> << symbol >> \o rest.symbols,
                           panic |-> rest.panic]
                 ELSE IF top.sibling_iter # << >>
                 THEN FlattenFrom(f,
                         step_into(f,
                            [stack1 EXCEPT ![stack_end].sibling_iter = Tail(@)],
                            Head(top.sibling_iter)))
                 ELSE [symbols |-> << >>, panic |-> TRUE]
        ELSE FlattenFrom(f, SubSeq(stack, 1, stack_end - 1))

\* FormulaRef::iter, run to its end
Flatten(f) == FlattenFrom(f, step_into(f, << >>, f.root))

\* mutant: the byte is left as it is
SetHighBit_not(byte) == byte

\* byte | 0x80
SetHighBit(byte) == IF (byte \div 128) % 2 = 1 THEN byte ELSE byte + 128

\* the loop of append_to_stack_buffer over the symbols
RECURSIVE AppendSymbols(_, _)
AppendSymbols(stack_buffer, symbols) ==
    IF symbols = << >> THEN stack_buffer
    ELSE LET buf == stack_buffer \o AtomName(Head(symbols))
         IN  AppendSymbols([buf EXCEPT ![Len(buf)] = SetHighBit(@)], Tail(symbols))

append_to_stack_buffer(f, stack_buffer) ==
    LET tos == Len(stack_buffer)
        buf == AppendSymbols(stack_buffer, Flatten(f).symbols)
    IN  [stack_buffer |-> buf, range |-> Range(tos, Len(buf))]

\* the calls of append_to_stack_buffer on one buffer
MaxAppends == 2

\* what the buffer may hold beforehand
PriorBuffers == { << >>, << 65 >>, << 193 >>, << 112, 232 >> }

SInit ==
    /\ fself \in SelfFormulas
    /\ fpat = << >>
    /\ subs = NoSubstitutions
    /\ fout = << >>
    /\ subs2 = NoSubstitutions
    /\ flast = [op |-> "idle", ok |-> TRUE, pre |-> NoSubstitutions]
    /\ fthird = << >>
    /\ VIdle
    /\ BIdle
    /\ XIdle
    /\ sbuf \in PriorBuffers
    /\ srange = Range(0, 0)
    /\ sprev = << >>
    /\ sdone = 0

\* fself.append_to_stack_buffer(&mut sbuf); a formula Flatten panics on
\* aborts the program instead
SAppend ==
    /\ sdone < MaxAppends
    /\ ~Flatten(fself).panic
    /\ LET r == append_to_stack_buffer(fself, sbuf)
       IN  /\ sbuf' = r.stack_buffer
           /\ srange' = r.range
    /\ sprev' = sbuf
    /\ sdone' = sdone + 1
    /\ UNCHANGED <<fvars, vvars, rvars, bvars, xvars>>

\* before the first call, the formula is replaced by one of its sub-formulas
SReroot(n) ==
    /\ sdone = 0
    /\ n # fself.root
    /\ fself' = sub_formula(fself, n)
    /\ UNCHANGED <<fpat, subs, fout, subs2, flast, fthird>>
    /\ UNCHANGED <<vvars, rvars, bvars, svars, xvars>>

SNext ==
    \/ SAppend
    \/ \E n \in 1..Len(fself.tree) : SReroot(n)

SpecSentinel == SInit /\ [][SNext]_allvars

HighBit(byte) == (byte \div 128) % 2 = 1

\* the length of the names of the first n symbols
RECURSIVE NamesLen(_, _)
NamesLen(symbols, n) ==
    IF n = 0 THEN 0 ELSE NamesLen(symbols, n - 1) + Len(AtomName(symbols[n]))

\* C13: the range append_to_stack_buffer returns starts at the old length of
\* the buffer and ends at the new one, the bytes before it are unchanged,
\* and in the range the bytes with bit 0x80 set are exactly the final bytes
\* of the tokens emitted.
C13_Sentinel ==
    sdone > 0 =>
        LET symbols == Flatten(fself).symbols
            ends == {Len(sprev) + NamesLen(symbols, n) : n \in 1..Len(symbols)}
        IN  /\ srange.start = Len(sprev)
            /\ srange.end = Len(sbuf)
            /\ Len(sbuf) = Len(sprev) + NamesLen(symbols, Len(symbols))
            /\ SubSeq(sbuf, 1, Len(sprev)) = sprev
            /\ \A n \in (srange.start + 1)..srange.end : HighBit(sbuf[n]) <=> n \in ends

\* a formula of five tokens at least, one of them of two bytes, appended to
\* a buffer whose last byte has no sentinel
C13_Witness ==
    /\ sdone > 0
    /\ sprev = << 65 >>
    /\ Len(Flatten(fself).symbols) >= 5
    /\ Len(sbuf) > Len(sprev) + 5

(***************************************************************************)
(* FormulaBuilder on its own: reduce and build called on one builder, with *)
(* any arguments, in a build that checks integer overflow or in one that   *)
(* does not.  A call that panics leaves glast.aborted set, and nothing is  *)
(* called after it nor after build, which consumes the builder.            *)
(***************************************************************************)
\* the largest number of calls of reduce
MaxReduces == 3

\* the var_count and offset arguments tried
VarCounts == {0, 1, 2, 255}
Offsets == {0, 1, 2}

BuilderArc == <<"built">>

BuilderCall(op, label, var_count, offset, is_var, aborted, formula) ==
    [op |-> op, n |-> IF op = "new" THEN 0 ELSE glast.n + 1, pre |-> gfb,
     label |-> label, var_count |-> var_count, offset |-> offset,
     is_variable |-> is_var, aborted |-> aborted, formula |-> formula]

GInit ==
    /\ FIdle
    /\ VIdle
    /\ BIdle
    /\ SIdle
    /\ CIdle
    /\ gfb = NewBuilder
    /\ glast = [op |-> "new", n |-> 0, pre |-> NewBuilder, label |-> "",
                var_count |-> 0, offset |-> 0, is_variable |-> FALSE,
                aborted |-> FALSE, formula |-> << >>]
    /\ gchecks \in BOOLEAN

BuilderLive == ~glast.aborted /\ glast.op # "build"

\* fb.reduce(label, var_count, offset, is_variable)
GReduce(label, var_count, offset, is_var) ==
    /\ BuilderLive
    /\ glast.n < MaxReduces
    /\ LET aborts == \/ gchecks /\ ReduceOverflows(var_count, offset)
                     \/ ~ReduceAssert(gfb, var_count, offset)
                     \/ DrainPanics(gfb, var_count, offset)
       IN  /\ gfb' = IF aborts THEN gfb
                     ELSE reduce(gfb, label, var_count, offset, is_var)
           /\ glast' = BuilderCall("reduce", label, var_count, offset, is_var,
                                   aborts, << >>)
    /\ UNCHANGED gchecks
    /\ UNCHANGED <<fvars, vvars, rvars, bvars, svars, cvars>>

\* fb.build(typecode)
GBuild(typecode) ==
    /\ BuilderLive
    /\ glast' = BuilderCall("build", "", 0, 0, FALSE, ~BuildAssert(gfb),
                            IF BuildAssert(gfb)
                            THEN build(gfb, typecode, BuilderArc) ELSE << >>)
    /\ UNCHANGED <<gfb, gchecks>>
    /\ UNCHANGED <<fvars, vvars, rvars, bvars, svars, cvars>>

GNext ==
    \/ \E label \in Labels, var_count \in VarCounts, offset \in Offsets,
          is_var \in BOOLEAN : GReduce(label, var_count, offset, is_var)
    \/ \E typecode \in TypeCodes : GBuild(typecode)

SpecBuilder == GInit /\ [][GNext]_allvars

\* the call of reduce the step makes, seen from the state after it
Reduced == glast'.n = glast.n + 1 /\ glast'.op = "reduce"

Built == glast'.n = glast.n + 1 /\ glast'.op = "build"

C26_Reduce ==
    Reduced =>
        LET len   == Len(gfb.stack)
            v     == glast'.var_count
            o     == glast'.offset
            start == len - v - o
            new   == gfb'.stack[start + 1]
        IN  /\ glast'.aborted <=> ~(len >= v + o)
            /\ ~glast'.aborted =>
                  /\ Len(gfb'.stack) = len - v + 1
                  /\ \A n \in 1..start : gfb'.stack[n] = gfb.stack[n]
                  /\ \A n \in 1..o : gfb'.stack[start + 1 + n] = gfb.stack[len - o + n]
                  /\ new \notin 1..Len(gfb.tree)
                  /\ gfb'.tree[new].label = glast'.label
                  /\ gfb'.tree[new].children = [n \in 1..v |-> gfb.stack[start + n]]
                  /\ \A n \in 1..Len(gfb.tree) : gfb'.tree[n] = gfb.tree[n]
                  /\ (new \in gfb'.variables) <=> glast'.is_variable
                  /\ gfb'.variables \ {new} = gfb.variables

C26_Build ==
    Built =>
        /\ glast'.aborted <=> Len(gfb.stack) # 1
        /\ ~glast'.aborted =>
              /\ glast'.formula.root = gfb.stack[1]
              /\ glast'.formula.tree = gfb.tree
              /\ glast'.formula.variables = gfb.variables

\* C26: reduce(label, var_count, offset, is_variable) aborts unless
\* stack.len() >= var_count + offset; otherwise it removes the var_count
\* items at [len-var_count-offset, len-offset), makes one new node with those
\* items as children in order, puts it at len-var_count-offset, leaves the
\* items below and the offset items above in order, and flags the new node a
\* variable iff is_variable; build aborts unless exactly one item remains and
\* otherwise gives a formula rooted at that item.
C26_BuilderStack == [][C26_Reduce /\ C26_Build]_allvars

\* the same, for the calls whose var_count + offset fits in a u8
C26_NoOverflow ==
    [][(~(Reduced /\ ReduceOverflows(glast'.var_count, glast'.offset)))
          => (C26_Reduce /\ C26_Build)]_allvars

(***************************************************************************)
(* Formula::complete_substitutions.  The WorkVariableProvider is the       *)
(* sequence of what its calls of new_work_variable return, in order: a     *)
(* typecode and a work variable, or an error.  The result is [err, subs,   *)
(* asked, wvp]: the error returned (None for Ok), the substitutions as the *)
(* call left them, the labels new_work_variable was called with, and what  *)
(* is left of the provider.                                                *)
(***************************************************************************)
ProviderOk(typecode, work_var) ==
    [ok |-> TRUE, typecode |-> typecode, work_var |-> work_var, err |-> None]

ProviderErr(err) == [ok |-> FALSE, typecode |-> "", work_var |-> "", err |-> err]

\* mutant: a work variable is requested for a bound label as well
NeedsWorkVariable_always(substitutions, label) == TRUE

\* substitutions.0.get(label).is_none()
NeedsWorkVariable(substitutions, label) == ~IsBound(substitutions, label)

RECURSIVE sub_complete_substitutions(_, _, _)
RECURSIVE complete_children(_, _, _, _)
sub_complete_substitutions(self, node_id, acc) ==
    IF is_variable(self, node_id)
    THEN LET label == self.tree[node_id].label
             r     == Head(acc.wvp)
         IN  IF NeedsWorkVariable(acc.subs, label)
             THEN IF ~r.ok
                  THEN [acc EXCEPT !.err = r.err,
                                   !.asked = Append(@, label),
                                   !.wvp = Tail(@)]
                  ELSE [acc EXCEPT
                          !.subs = insert(@, label,
                                      from_float(r.work_var, r.typecode,
                                                 FloatArc(label, r.work_var))),
                          !.asked = Append(@, label),
                          !.wvp = Tail(@)]
             ELSE acc
    ELSE complete_children(self, children_iter(self.tree, node_id), 1, acc)

complete_children(self, cs, n, acc) ==
    IF n > Len(cs) THEN acc
    ELSE LET r == sub_complete_substitutions(self, cs[n], acc)
         IN  IF r.err # None THEN r ELSE complete_children(self, cs, n + 1, r)

complete_substitutions(self, substitutions, wvp) ==
    sub_complete_substitutions(self, self.root,
        [err |-> None, subs |-> substitutions, asked |-> << >>, wvp |-> wvp])

\* the substitutions on entry: none, or one label bound
EntrySubstitutions ==
    {NoSubstitutions}
        \cup {insert(NoSubstitutions, l, from_float(w, "wff", FloatArc(l, w))) :
                l \in Labels, w \in WorkLabels}

\* what a call of the provider may return
ProviderReturns ==
    {ProviderOk("wff", w) : w \in WorkLabels} \cup {ProviderErr(<<"NoWorkVariable", "">>)}

\* the provider answers as many calls as a formula has labels
Providers == [1..Len(LabelSeq) -> ProviderReturns]

CInit ==
    /\ FIdle
    /\ VIdle
    /\ BIdle
    /\ SIdle
    /\ GIdle
    /\ cin \in [self : PatternFormulas, subs : EntrySubstitutions, wvp : Providers]
    /\ clast = [op |-> "none", res |-> << >>]

\* cin.self.complete_substitutions(&mut subs, &mut wvp)
CComplete ==
    /\ clast.op = "none"
    /\ clast' = [op |-> "complete_substitutions",
                 res |-> complete_substitutions(cin.self, cin.subs, cin.wvp)]
    /\ UNCHANGED cin
    /\ UNCHANGED <<fvars, vvars, rvars, bvars, svars, gvars>>

\* the formula is looked at from one of its nodes, as a SubFormulaRef is
CReroot(n) ==
    /\ clast.op = "none"
    /\ n # cin.self.root
    /\ cin' = [cin EXCEPT !.self = sub_formula(cin.self, n)]
    /\ UNCHANGED clast
    /\ UNCHANGED <<fvars, vvars, rvars, bvars, svars, gvars>>

CNext ==
    \/ CComplete
    \/ \E n \in 1..Len(cin.self.tree) : CReroot(n)

SpecComplete == CInit /\ [][CNext]_allvars

\* the variable nodes of the formula from node n down, left to right
RECURSIVE VariablesFrom(_, _)
VariablesFrom(f, n) ==
    LET RECURSIVE each(_)
        each(cs) == IF cs = << >> THEN << >>
                    ELSE VariablesFrom(f, Head(cs)) \o each(Tail(cs))
    IN  (IF n \in f.variables THEN << n >> ELSE << >>) \o each(f.tree[n].children)

\* the labels of nodes, without those bound on entry and without repeats
RECURSIVE Unbound(_, _, _)
Unbound(f, nodes, seen) ==
    IF nodes = << >> THEN << >>
    ELSE LET l == f.tree[Head(nodes)].label
         IN  IF l \in seen THEN Unbound(f, Tail(nodes), seen)
             ELSE << l >> \o Unbound(f, Tail(nodes), seen \cup {l})

Completed == clast.op = "complete_substitutions"

\* the labels to ask for, in order; the calls made are these up to the first
\* the provider answers with an error
ToAsk == Unbound(cin.self, VariablesFrom(cin.self, cin.self.root), DOMAIN cin.subs)

FirstError ==
    LET bad == {n \in 1..Len(ToAsk) : ~cin.wvp[n].ok}
    IN  IF bad = {} THEN 0 ELSE CHOOSE n \in bad : \A other \in bad : n <= other

\* C27: when complete_substitutions returns Ok every variable node of self
\* has a binding; bindings present on entry are unchanged; the provider is
\* asked once for each distinct variable label of self unbound on entry, in
\* left-to-right tree order, and the label is bound to
\* from_float(work_var, typecode); if the provider returns an error, that
\* error is returned, no further variable is requested and the bindings added
\* before it remain.
C27_CompleteSubstitutions ==
    Completed =>
        LET r     == clast.res
            asks  == IF FirstError = 0 THEN Len(ToAsk) ELSE FirstError
        IN  /\ r.err = None =>
                  \A n \in 1..Len(VariablesFrom(cin.self, cin.self.root)) :
                      cin.self.tree[VariablesFrom(cin.self, cin.self.root)[n]].label
                          \in DOMAIN r.subs
            /\ \A l \in DOMAIN cin.subs : l \in DOMAIN r.subs /\ r.subs[l] = cin.subs[l]
            /\ r.asked = SubSeq(ToAsk, 1, asks)
            /\ r.err = IF FirstError = 0 THEN None ELSE cin.wvp[FirstError].err
            /\ \A n \in 1..Len(ToAsk) :
                  IF n <= asks /\ cin.wvp[n].ok
                  THEN /\ ToAsk[n] \in DOMAIN r.subs
                       /\ LET f == r.subs[ToAsk[n]]
                          IN  /\ f.typecode = cin.wvp[n].typecode
                              /\ Len(f.tree) = 1
                              /\ f.tree[f.root].label = cin.wvp[n].work_var
                              /\ f.tree[f.root].children = << >>
                              /\ f.variables = {f.root}
                  ELSE ToAsk[n] \notin DOMAIN r.subs
            /\ DOMAIN r.subs \subseteq (DOMAIN cin.subs)
                                          \cup {ToAsk[n] : n \in 1..Len(ToAsk)}

\* the formula holds one label at two variable nodes, unbound on entry: the
\* provider was asked once and the label is bound
C27_Witness ==
    /\ Completed
    /\ cin.subs = NoSubstitutions
    /\ Len(VariablesFrom(cin.self, cin.self.root)) = 2
    /\ Len(clast.res.asked) = 1
    /\ clast.res.err = None
    /\ DOMAIN clast.res.subs # {}

(***************************************************************************)
(* The Flatten iterator on its own: FormulaRef::iter makes it, and each    *)
(* call of next yields a symbol, returns None or panics.  The iterator is  *)
(* cin.stack; clast is what the last call returned.                        *)
(***************************************************************************)
\* Flatten::next: the stack the call leaves, the symbol it returns (<< >>
\* for None), and whether it panics
RECURSIVE next(_, _)
next(f, stack) ==
    IF stack = << >> THEN [stack |-> stack, item |-> << >>, panic |-> FALSE]
    ELSE
    LET stack_end == Len(stack)
        top == stack[stack_end]
    IN  IF top.math_iter # << >>
        THEN LET symbol == Head(top.math_iter)
                 stack1 == [stack EXCEPT ![stack_end].math_iter = Tail(@)]
             IN  IF SymbolType(symbol) = "Constant" \/ ~top.some
                 THEN [stack |-> stack1, item |-> << symbol >>, panic |-> FALSE]
                 ELSE IF top.sibling_iter # << >>
                 THEN next(f,
                         step_into(f,
                            [stack1 EXCEPT ![stack_end].sibling_iter = Tail(@)],
                            Head(top.sibling_iter)))
                 ELSE [stack |-> stack1, item |-> << >>, panic |-> TRUE]
        ELSE next(f, SubSeq(stack, 1, stack_end - 1))

LInit ==
    /\ FIdle
    /\ VIdle
    /\ BIdle
    /\ SIdle
    /\ GIdle
    /\ cin \in [self : SelfFormulas, stack : {<< >>}]
    /\ clast = [op |-> "none", item |-> << >>, panic |-> FALSE]

\* the FormulaRef of the sub-formula at node n .iter()
LIter(n) ==
    /\ clast.op = "none"
    /\ cin' = [self |-> sub_formula(cin.self, n),
               stack |-> step_into(cin.self, << >>, n)]
    /\ clast' = [op |-> "iter", item |-> << >>, panic |-> FALSE]
    /\ UNCHANGED <<fvars, vvars, rvars, bvars, svars, gvars>>

\* the iterator's next(); there is no call after one that panicked
LNext ==
    /\ clast.op \in {"iter", "next"}
    /\ ~clast.panic
    /\ LET r == next(cin.self, cin.stack)
       IN  /\ cin' = [cin EXCEPT !.stack = r.stack]
           /\ clast' = [op |-> "next", item |-> r.item, panic |-> r.panic]
    /\ UNCHANGED <<fvars, vvars, rvars, bvars, svars, gvars>>

LFlatten ==
    \/ \E n \in 1..Len(cin.self.tree) : LIter(n)
    \/ LNext

SpecFlatten == LInit /\ [][LFlatten]_allvars

\* the label names a syntax axiom, and not a floating hypothesis
IsSyntaxAxiom(label) == label = "a"

\* the last call of next yielded a variable token of the math string of the
\* node on top of the stack
YieldedVariable ==
    /\ clast.op = "next"
    /\ clast.item # << >>
    /\ SymbolType(clast.item[1]) = "Variable"

\* C28: while flattening, when a variable token of a node's syntax statement
\* is reached and the node has no child left to descend into, a node with no
\* children at all included, the iterator panics instead of yielding a
\* symbol: no call of next yields a variable token of a syntax axiom.
C28_FlattenFailure ==
    YieldedVariable =>
        LET top == cin.stack[Len(cin.stack)]
        IN  ~IsSyntaxAxiom(cin.self.tree[top.node_id].label)

\* the children of a node that has some are used up when a variable token is
\* reached: next panics
C28_Exhausted ==
    /\ clast.op = "next"
    /\ clast.panic
    /\ LET top == cin.stack[Len(cin.stack)]
       IN  /\ top.some
           /\ top.sibling_iter = << >>

(***************************************************************************)
(* FormulaRef::build_syntax_proof.  The ProofBuilder is the sequence of    *)
(* the calls of build it received, and the item build returns is the       *)
(* number of the call.  The frames of the statements the labels name are   *)
(*     a: floating ps (variable 1), an essential one, floating ph          *)
(*        (variable 0)                                                      *)
(*     b: no hypotheses (a floating statement)                             *)
(* The result is [arr, stack_buffer, item, panic]; a panic is an index out *)
(* of the bounds of children_hyps or the one of Flatten.                   *)
(***************************************************************************)
SyntaxFloating(index) == [is_float |-> TRUE, index |-> index]

SyntaxEssential == [is_float |-> FALSE, index |-> 0]

SyntaxFrame(label) ==
    IF label = "a"
    THEN [hypotheses |-> << SyntaxFloating(1), SyntaxEssential, SyntaxFloating(0) >>]
    ELSE [hypotheses |-> << >>]

\* mutant: the item of the first child, whatever the index
PickHyp_first(children_hyps, index) == children_hyps[1]

\* children_hyps[*index]
PickHyp(children_hyps, index) == children_hyps[index + 1]

\* frame.hypotheses.iter().filter_map(..).collect()
RECURSIVE CollectHyps(_, _)
CollectHyps(hypotheses, children_hyps) ==
    IF hypotheses = << >> THEN << >>
    ELSE LET hyp == Head(hypotheses)
         IN  (IF hyp.is_float THEN << PickHyp(children_hyps, hyp.index) >> ELSE << >>)
                \o CollectHyps(Tail(hypotheses), children_hyps)

RECURSIVE sub_build_syntax_proof(_, _, _)
RECURSIVE build_children(_, _, _, _, _)
sub_build_syntax_proof(f, node_id, acc) ==
    LET address == f.tree[node_id].label
        frame   == SyntaxFrame(f.tree[node_id].label)
        r       == build_children(f, children_iter(f.tree, node_id), 1, acc, << >>)
        rerooted == sub_formula(f, node_id)
    IN  IF r.acc.panic THEN r.acc
        ELSE IF \E n \in 1..Len(frame.hypotheses) :
                    /\ frame.hypotheses[n].is_float
                    /\ frame.hypotheses[n].index >= Len(r.children_hyps)
        THEN [r.acc EXCEPT !.panic = TRUE]
        ELSE IF Flatten(rerooted).panic
        THEN [r.acc EXCEPT !.panic = TRUE]
        ELSE LET hyps == CollectHyps(frame.hypotheses, r.children_hyps)
                 a    == append_to_stack_buffer(rerooted, r.acc.stack_buffer)
                 arr  == Append(r.acc.arr,
                                [address |-> address, hyps |-> hyps,
                                 range |-> a.range])
             IN  [arr |-> arr, stack_buffer |-> a.stack_buffer,
                  item |-> Len(arr), panic |-> FALSE]

build_children(f, cs, n, acc, children_hyps) ==
    IF n > Len(cs) \/ acc.panic
    THEN [acc |-> acc, children_hyps |-> children_hyps]
    ELSE LET r == sub_build_syntax_proof(f, cs[n], acc)
         IN  build_children(f, cs, n + 1, r, Append(children_hyps, r.item))

build_syntax_proof(f, stack_buffer, arr) ==
    sub_build_syntax_proof(f, f.root,
        [arr |-> arr, stack_buffer |-> stack_buffer, item |-> 0, panic |-> FALSE])

\* the formulas a syntax proof is built for: those substitute yields from a
\* pattern and a formula for the label b
SyntaxFormulas ==
    { substitute(p, insert(NoSubstitutions, "b", s), OutArc) :
        p \in PatternFormulas, s \in SelfFormulas }

YInit ==
    /\ FIdle
    /\ VIdle
    /\ BIdle
    /\ SIdle
    /\ GIdle
    /\ cin \in [self : SyntaxFormulas, stack_buffer : {<< >>, << 193 >>}]
    /\ clast = [op |-> "none", res |-> << >>]

\* cin.self.build_syntax_proof(&mut stack_buffer, &mut arr), arr empty
YBuild ==
    /\ clast.op = "none"
    /\ clast' = [op |-> "build_syntax_proof",
                 res |-> build_syntax_proof(cin.self, cin.stack_buffer, << >>)]
    /\ UNCHANGED cin
    /\ UNCHANGED <<fvars, vvars, rvars, bvars, svars, gvars>>

\* the formula is looked at from one of its nodes
YReroot(n) ==
    /\ clast.op = "none"
    /\ n # cin.self.root
    /\ cin' = [cin EXCEPT !.self = sub_formula(cin.self, n)]
    /\ UNCHANGED clast
    /\ UNCHANGED <<fvars, vvars, rvars, bvars, svars, gvars>>

YNext ==
    \/ YBuild
    \/ \E n \in 1..Len(cin.self.tree) : YReroot(n)

SpecSyntax == YInit /\ [][YNext]_allvars

\* the nodes from n down, those of the children before n
RECURSIVE ChildrenFirst(_, _)
ChildrenFirst(f, n) ==
    LET RECURSIVE each(_)
        each(cs) == IF cs = << >> THEN << >>
                    ELSE ChildrenFirst(f, Head(cs)) \o each(Tail(cs))
    IN  each(f.tree[n].children) \o << n >>

SyntaxBuilt == clast.op = "build_syntax_proof" /\ ~clast.res.panic

\* the number of the call of build for node n
CallOf(order, n) == CHOOSE c \in 1..Len(order) : order[c] = n

\* C29: build_syntax_proof calls proof_builder.build once for each node of
\* the formula, for the children of a node, in tree order, before the node;
\* the hypotheses passed for a node are, for the floating hypotheses of its
\* frame in frame order, the item returned for the child the hypothesis'
\* index gives, essential hypotheses giving nothing; the item returned is
\* the one of the root.
C29_SyntaxProofOrder ==
    SyntaxBuilt =>
        LET f     == cin.self
            order == ChildrenFirst(f, f.root)
            arr   == clast.res.arr
        IN  /\ Len(arr) = Len(order)
            /\ \A c \in 1..Len(order) :
                  LET n     == order[c]
                      hs    == SyntaxFrame(f.tree[n].label).hypotheses
                      fl    == SelectSeq(hs, LAMBDA h : h.is_float)
                  IN  /\ arr[c].address = f.tree[n].label
                      /\ Len(arr[c].hyps) = Len(fl)
                      /\ \A j \in 1..Len(fl) :
                            arr[c].hyps[j] =
                                CallOf(order, f.tree[n].children[fl[j].index + 1])
            /\ clast.res.item = CallOf(order, f.root)

\* a proof was built for a formula whose root has two children, the first of
\* which has children too: the hypotheses of the root are the item of the
\* second child, then the item of the first
C29_Witness ==
    /\ SyntaxBuilt
    /\ Len(cin.self.tree[cin.self.root].children) = 2
    /\ cin.self.tree[cin.self.tree[cin.self.root].children[1]].children # << >>
    /\ Len(clast.res.arr) = 5
    /\ clast.res.arr[5].hyps = << 4, 3 >>

====
